---- MODULE Spec2Model ----
(***************************************************************************)
(* A model of the RVO2 TypeScript port: the Simulator (agents, obstacle    *)
(* chain, default-agent template, global time), the KdTree (agent k-D tree *)
(* and obstacle BSP) and the Agent (neighbour lists, ORCA lines, linear    *)
(* programs, update).                                                      *)
(*                                                                         *)
(* Numbers.  The source computes in IEEE-754 doubles, and so does the      *)
(* model: a scalar is [s, h, l, e], the double s * (h * 2^28 + l) * 2^e    *)
(* with sign s, a mantissa of 53 bits in two limbs (fewer bits for a       *)
(* subnormal, e = -1074) and the exponent e, plus zero, NaN and the two    *)
(* infinities with the JavaScript rules for them (x/0, 0/0, comparisons    *)
(* with NaN are false).  +, -, *, / and Math.sqrt are computed exactly in  *)
(* limbs of integers and rounded to nearest, ties to even, so every result *)
(* is the double the source computes, bit for bit.  Zero has its sign: +0  *)
(* and -0 are two values that compare equal, and x / -0 is -Infinity for a *)
(* positive x (a caller may hand -0 in as a time horizon or a time step).  *)
(***************************************************************************)
EXTENDS Integers, Sequences, FiniteSets, TLC

(***************************************************************************)
(* Scalars: IEEE-754 binary64                                              *)
(***************************************************************************)
LimbBase == 2^28
DigitBase == 2^14
EMin == -1022 - 52
EMax == 1023 - 52
InfExp == 10^6

\* An operator's argument is computed where it is first read.  Evaluated(x)
\* reads x, so that a loop written as a recursion computes its variables pass
\* by pass, in the order of the source, and not all at once at its end.
Evaluated(x) == x = x

Sgn(n) == IF n > 0 THEN 1 ELSE IF n < 0 THEN -1 ELSE 0
IAbs(n) == IF n < 0 THEN -n ELSE n
IMax(a, b) == IF a > b THEN a ELSE b
IMin(a, b) == IF a < b THEN a ELSE b

\* +0 and -0: no mantissa, the sign kept in e.
Zero == [s |-> 0, h |-> 0, l |-> 0, e |-> 0]
NegZero == [s |-> 0, h |-> 0, l |-> 0, e |-> -1]
SignedZero(s) == IF s < 0 THEN NegZero ELSE Zero
NaN == [s |-> 0, h |-> 0, l |-> 0, e |-> InfExp]
Inf(s) == [s |-> s, h |-> 0, l |-> 0, e |-> InfExp]
POSITIVE_INFINITY == Inf(1)

IsNaN(a) == a.e = InfExp /\ a.s = 0
IsFinite(a) == a.e # InfExp
IsZero(a) == a.s = 0 /\ a.e # InfExp
\* The sign bit of a value that is not NaN.
SignOf(a) == IF a.s # 0 THEN a.s ELSE IF a.e = -1 THEN -1 ELSE 1

\* The number of bits of 0 <= x < 2^28, from a table of the numbers below 2^8.
BitTable ==
  [x \in 0..255 |-> CHOOSE k \in 0..8 : x < 2^k /\ (k = 0 \/ x >= 2^(k - 1))]
BitLen8(x, k) == k + BitTable[x \div 2^k]
BitLen28(x) ==
  BitLen8(x, IF x < 2^8 THEN 0 ELSE IF x < 2^16 THEN 8
             ELSE IF x < 2^24 THEN 16 ELSE 24)

\* A wide integer is four limbs of 28 bits, the lowest first.
Limb(N, i) == IF i \in 1..4 THEN N[i] ELSE 0
TopLimb(N) ==
  IF N[4] # 0 THEN 4 ELSE IF N[3] # 0 THEN 3 ELSE IF N[2] # 0 THEN 2 ELSE 1
WideTop(N, i) == 28 * (i - 1) + BitLen28(N[i])
WideLen(N) == WideTop(N, TopLimb(N))

\* Limb j of N shifted right by k bits, and left by -k bits for k < 0; N
\* shifted so.
ShrLimb(N, k, j) ==
  Limb(N, j + (k \div 28)) \div 2^(k % 28)
    + (Limb(N, j + (k \div 28) + 1) % 2^(k % 28)) * 2^(28 - (k % 28))
Shift(N, k) == [j \in 1..4 |-> ShrLimb(N, k, j)]

\* Bit k of N, and whether a bit below bit k is set.
WideBit(N, k) == (Limb(N, (k \div 28) + 1) \div 2^(k % 28)) % 2
WideLow(N, k) ==
  \/ Limb(N, (k \div 28) + 1) % 2^(k % 28) # 0
  \/ \E i \in 1..IMin(k \div 28, 4) : N[i] # 0

\* X + sg * Y >= 0 for sg = 1 or sg = -1
WideAdd(X, Y, sg) ==
  LET s1 == X[1] + sg * Y[1]
      s2 == X[2] + sg * Y[2] + (s1 \div LimbBase)
      s3 == X[3] + sg * Y[3] + (s2 \div LimbBase)
  IN <<s1 % LimbBase, s2 % LimbBase, s3 % LimbBase,
       X[4] + sg * Y[4] + (s3 \div LimbBase)>>
WideLess(X, Y) ==
  IF X[4] # Y[4] THEN X[4] < Y[4]
  ELSE IF X[3] # Y[3] THEN X[3] < Y[3]
  ELSE IF X[2] # Y[2] THEN X[2] < Y[2]
  ELSE X[1] < Y[1]
WideEqual(X, Y) == \A i \in 1..4 : X[i] = Y[i]

\* The double of sign s, mantissa h * 2^28 + l <= 2^53 and exponent e, where
\* l may be 2^28.  A double from 2^1024 on is infinite.
Packed(s, h, l, e) ==
  IF h = 0 /\ l = 0 THEN SignedZero(s)
  ELSE IF e + (h + l \div LimbBase) \div 2^25 > EMax THEN Inf(s)
  ELSE IF h + l \div LimbBase = 2^25
  THEN [s |-> s, h |-> 2^24, l |-> 0, e |-> e + 1]
  ELSE [s |-> s, h |-> h + l \div LimbBase, l |-> l % LimbBase, e |-> e]

\* The double nearest to s * N * 2^e, N a wide integer; sticky says that the
\* exact value is a little more than N.  N is cut by sh bits, to 53 bits or
\* to the exponent -1074 of a subnormal, and rounded to nearest, ties to
\* even: half is the highest bit cut off, low whether anything is below it.
\* A short N is shifted left instead (sh < 0).
RoundUp(s, h, l, e, half, low) ==
  Packed(s, h, IF half /\ (low \/ l % 2 = 1) THEN l + 1 ELSE l, e)
RoundCut(s, N, e, sticky, sh) ==
  RoundUp(s, ShrLimb(N, sh, 2), ShrLimb(N, sh, 1), e + sh,
          WideBit(N, sh - 1) = 1, sticky \/ WideLow(N, sh - 1))
Round(s, N, e, sticky) ==
  CASE Evaluated(N) ->
    RoundCut(s, N, e, sticky, IMax(WideLen(N) - 53, EMin - e))

\* Literals: the integer n, and the decimal n / 10^k, as the double nearest
\* to it.
Mant(a) == <<a.l, a.h, 0, 0>>
Num(n) ==
  Round(Sgn(n), <<IAbs(n) % LimbBase, IAbs(n) \div LimbBase, 0, 0>>, 0, FALSE)

FNeg(a) == IF IsZero(a) THEN SignedZero(-SignOf(a)) ELSE [a EXCEPT !.s = -a.s]
FAbs(a) == IF IsZero(a) THEN Zero ELSE [a EXCEPT !.s = IAbs(a.s)]

\* sx * X * 2^e + sy * Y * 2^e: the smaller of X and Y is taken from the
\* other when the signs differ, and two that cancel leave +0.
Cancelled(r) == IF IsZero(r) THEN Zero ELSE r
AddSigned(sx, X, sy, Y, e, swap) ==
  Cancelled(Round(IF swap THEN sy ELSE sx,
                  WideAdd(IF swap THEN Y ELSE X, IF swap THEN X ELSE Y, sx * sy),
                  e, FALSE))
AddWide(sx, X, sy, Y, e) ==
  CASE Evaluated(X) ->
    AddSigned(sx, X, sy, Y, e, sx # sy /\ WideLess(X, Y))

\* x + y for finite non-zero x and y with x.e >= y.e: the mantissas are
\* aligned at the lower exponent; a y more than 56 bits below x counts as one
\* unit 56 bits below x.
AddAligned(x, y) ==
  AddWide(x.s, Shift(Mant(x), -IMin(x.e - y.e, 56)),
          y.s, IF x.e - y.e > 56 THEN <<1, 0, 0, 0>> ELSE Mant(y),
          x.e - IMin(x.e - y.e, 56))

\* a + b
FAdd(a, b) ==
  IF a.e = InfExp \/ b.e = InfExp
  THEN (IF IsNaN(a) \/ IsNaN(b) \/ (a.e = b.e /\ a.s # b.s) THEN NaN
        ELSE IF a.e = InfExp THEN a ELSE b)
  ELSE IF a.s = 0 /\ b.s = 0 THEN (IF a = b THEN a ELSE Zero)
  ELSE IF a.s = 0 THEN b
  ELSE IF b.s = 0 THEN a
  ELSE AddAligned(IF a.e >= b.e THEN a ELSE b, IF a.e >= b.e THEN b ELSE a)

FSub(a, b) == FAdd(a, FNeg(b))

\* The four 14-bit digits of h * 2^28 + l, the lowest first.
Digits4(h, l) ==
  <<l % DigitBase, l \div DigitBase, h % DigitBase, h \div DigitBase>>

\* The wide product of two numbers a and b of four digits: Column(a, b, k) is
\* the sum of the products of digits that weigh DigitBase^k; a limb is made
\* of two columns c and the carry from below.
Column(a, b, k) ==
  a[1] * Limb(b, k + 1) + a[2] * Limb(b, k) + a[3] * Limb(b, k - 1)
    + a[4] * Limb(b, k - 2)
Carried(c) ==
  LET p0 == c[0] + (c[1] % DigitBase) * DigitBase
      p1 == c[2] + (c[3] % DigitBase) * DigitBase
              + (p0 \div LimbBase) + (c[1] \div DigitBase)
      p2 == c[4] + (c[5] % DigitBase) * DigitBase
              + (p1 \div LimbBase) + (c[3] \div DigitBase)
  IN <<p0 % LimbBase, p1 % LimbBase, p2 % LimbBase,
       c[6] + (p2 \div LimbBase) + (c[5] \div DigitBase)>>
Mul4(a, b) == Carried([k \in 0..6 |-> Column(a, b, k)])

\* a * b
FMul(a, b) ==
  IF a.e = InfExp \/ b.e = InfExp
  THEN (IF IsNaN(a) \/ IsNaN(b) \/ a.s = 0 \/ b.s = 0 THEN NaN
        ELSE Inf(a.s * b.s))
  ELSE IF a.s = 0 \/ b.s = 0 THEN SignedZero(SignOf(a) * SignOf(b))
  ELSE Round(a.s * b.s, Mul4(Digits4(a.h, a.l), Digits4(b.h, b.l)),
             a.e + b.e, FALSE)

\* Long division in 14-bit digits by a divisor D of four digits, the highest
\* of them from 2^13 on.  X is the remainder so far with the next digit of
\* the dividend below it: five digits.  Less5(X, q, D) is X - q * D, the
\* highest digit carrying its sign.
Less5(X, q, D) ==
  LET t1 == X[1] - q * D[1]
      t2 == X[2] - q * D[2] + (t1 \div DigitBase)
      t3 == X[3] - q * D[3] + (t2 \div DigitBase)
      t4 == X[4] - q * D[4] + (t3 \div DigitBase)
  IN <<t1 % DigitBase, t2 % DigitBase, t3 % DigitBase, t4 % DigitBase,
       X[5] + (t4 \div DigitBase)>>

\* One digit of the quotient after the digits Q.  The estimate q from the two
\* highest digits of X is at most two above the digit (the highest digit of D
\* is 2^13 or more); t[c] is X less q - c times D.
DivPick(Q, q, t) ==
  IF t[0][5] >= 0 THEN [q |-> Append(Q, q), r |-> SubSeq(t[0], 1, 4)]
  ELSE IF t[1][5] >= 0 THEN [q |-> Append(Q, q - 1), r |-> SubSeq(t[1], 1, 4)]
  ELSE [q |-> Append(Q, q - 2), r |-> SubSeq(t[2], 1, 4)]
DivDigit(Q, X, q, D) == DivPick(Q, q, [c \in 0..2 |-> Less5(X, q - c, D)])
DivStep(st, x, D) ==
  DivDigit(st.q, <<x, st.r[1], st.r[2], st.r[3], st.r[4]>>,
           IMin(DigitBase - 1, (st.r[4] * DigitBase + st.r[3]) \div D[4]), D)

\* The five digits xs of the dividend, the highest first, from digit k on,
\* below the remainder st.r < D: the digits q of the quotient after those of
\* st.q, and the remainder r.
RECURSIVE LongDiv(_, _, _, _)
LongDiv(st, xs, k, D) ==
  IF k > 5 THEN st
  ELSE CASE Evaluated(st) -> LongDiv(DivStep(st, xs[k], D), xs, k + 1, D)

\* The wide integer of five digits, the highest first.
Wide5(Q) ==
  <<Q[5] + Q[4] * DigitBase, Q[3] + Q[2] * DigitBase, Q[1], 0>>

\* The number of bits of the mantissa of a, and the digits d of the mantissa
\* shifted to 56 bits, with that number.
MantLen(a) == 28 * Sgn(a.h) + BitLen28(IF a.h # 0 THEN a.h ELSE a.l)
AlignedBy(a, len) ==
  [d |-> Digits4(ShrLimb(Mant(a), len - 56, 2), ShrLimb(Mant(a), len - 56, 1)),
   len |-> len]
Aligned(a) == AlignedBy(a, MantLen(a))

\* a / b for finite non-zero a and b: both mantissas are shifted to 56 bits
\* (A[1] is a's, A[2] is b's) and divided digit by digit, to 56 or 57 bits of
\* the quotient and a remainder that counts in the rounding.
DivRound(s, d, e) ==
  CASE Evaluated(d) -> Round(s, Wide5(d.q), e, d.r # <<0, 0, 0, 0>>)
DivAligned(s, A, e) ==
  CASE Evaluated(A) ->
    DivRound(s, LongDiv([q |-> <<>>, r |-> <<A[1].d[2], A[1].d[3], A[1].d[4], 0>>],
                        <<A[1].d[1], 0, 0, 0, 0>>, 1, A[2].d),
             e + A[1].len - A[2].len - 56)
DivFinite(a, b) ==
  DivAligned(a.s * b.s, [i \in 1..2 |-> Aligned(IF i = 1 THEN a ELSE b)],
             a.e - b.e)

\* a / b
FDiv(a, b) ==
  IF a.e = InfExp \/ b.e = InfExp
  THEN (IF IsNaN(a) \/ IsNaN(b) \/ a.e = b.e THEN NaN
        ELSE IF a.e = InfExp THEN Inf(a.s * SignOf(b))
        ELSE SignedZero(SignOf(a) * b.s))
  ELSE IF b.s = 0 THEN (IF a.s = 0 THEN NaN ELSE Inf(a.s * SignOf(b)))
  ELSE IF a.s = 0 THEN SignedZero(SignOf(a) * b.s)
  ELSE DivFinite(a, b)

Dec(n, k) == FDiv(Num(n), Num(10^k))

\* a < b for operands that are not NaN.
Less(a, b) ==
  IF a.s # b.s THEN a.s < b.s
  ELSE IF a.s > 0
  THEN a.e < b.e \/ (a.e = b.e /\ (a.h < b.h \/ (a.h = b.h /\ a.l < b.l)))
  ELSE /\ a.s < 0
       /\ b.e < a.e \/ (a.e = b.e /\ (b.h < a.h \/ (a.h = b.h /\ b.l < a.l)))

\* Comparisons (false when an operand is NaN, as in the source language).
FLt(a, b) == ~IsNaN(a) /\ ~IsNaN(b) /\ Less(a, b)
FGt(a, b) == FLt(b, a)
FLe(a, b) == ~IsNaN(a) /\ ~IsNaN(b) /\ ~Less(b, a)
FGe(a, b) == FLe(b, a)

\* Math.max / Math.min: -0 counts as below +0.
FMax(a, b) ==
  IF IsNaN(a) \/ IsNaN(b) THEN NaN
  ELSE IF Less(a, b) \/ (IsZero(a) /\ IsZero(b) /\ b = Zero) THEN b ELSE a
FMin(a, b) ==
  IF IsNaN(a) \/ IsNaN(b) THEN NaN
  ELSE IF Less(b, a) \/ (IsZero(a) /\ IsZero(b) /\ b = NegZero) THEN b ELSE a

\* N \div x for a wide N < 2^112 and 2^55 <= x < 2^56; Digit(N, i) is the
\* 14-bit digit i of N.
Digit(N, i) ==
  (N[(i + 1) \div 2] \div (IF i % 2 = 1 THEN 1 ELSE DigitBase)) % DigitBase
WideDigits(n, D) ==
  Wide5(LongDiv([q |-> <<>>, r |-> <<n[6], n[7], n[8], 0>>],
                <<n[5], n[4], n[3], n[2], n[1]>>, 1, D).q)
WideDiv(N, x) ==
  WideDigits([i \in 1..8 |-> Digit(N, i)], Digits4(x[2], x[1]))

\* The largest x with x * x <= N for 2^110 <= N < 2^112, by Newton's
\* iteration x := (x + N \div x) \div 2 from above, for as long as it lowers
\* x.  The first x comes from the root r of the highest limb of N, itself
\* found by four steps of the same iteration from 2^14, and exceeds the root
\* of N by less than 2^-12 of it; three steps bring it to the root or one
\* above it, and the fourth to the root.
IRootStep(t, x) == IMin(x, (x + t \div x) \div 2)
IRoot(t) == IRootStep(t, IRootStep(t, IRootStep(t, IRootStep(t, 2^14))))
RootFirst(r) ==
  IF r + 1 >= 2^14 THEN <<LimbBase - 1, LimbBase - 1, 0, 0>>
  ELSE <<0, (r + 1) * 2^14, 0, 0>>
RootLower(x, y) == IF WideLess(y, x) THEN y ELSE x
RootMean(x, sum) ==
  CASE Evaluated(sum) ->
    RootLower(x, <<ShrLimb(sum, 1, 1), ShrLimb(sum, 1, 2), 0, 0>>)
RootStep(N, x) == RootMean(x, WideAdd(x, WideDiv(N, x), 1))
RECURSIVE RootLoop(_, _, _)
RootLoop(N, x, k) ==
  IF k = 0 THEN x
  ELSE CASE Evaluated(x) -> RootLoop(N, RootStep(N, x), k - 1)
WideRoot(N) == RootLoop(N, RootFirst(IRoot(N[4])), 4)
WideSquare(S) == Mul4(Digits4(S[2], S[1]), Digits4(S[2], S[1]))

\* Math.sqrt of a finite a > 0: the mantissa is shifted by t bits to 53 bits,
\* then by 58 bits, and by one more where that leaves an odd exponent; the
\* root S of that N has 56 bits, and whether N is its square counts in the
\* rounding.
RootRound(N, S, e) ==
  CASE Evaluated(S) -> Round(1, S, e, ~WideEqual(WideSquare(S), N))
RootWide(N, e) == CASE Evaluated(N) -> RootRound(N, WideRoot(N), e)
RootEven(a, t, odd) ==
  RootWide(Shift(Mant(a), -(t + 58 + odd)), (a.e - t - 58 - odd) \div 2)
RootFinite(a, t) == RootEven(a, t, (a.e - t) % 2)

\* Math.sqrt
FSqrt(a) ==
  IF IsNaN(a) \/ a.s < 0 THEN NaN
  ELSE IF a.e = InfExp \/ a.s = 0 THEN a
  ELSE RootFinite(a, 53 - MantLen(a))

(***************************************************************************)
(* Vector2 and RVOMath                                                     *)
(***************************************************************************)
Vector2(x, y) == [x |-> x, y |-> y]
V(i, j) == Vector2(Num(i), Num(j))

add(v, w) == Vector2(FAdd(v.x, w.x), FAdd(v.y, w.y))
subtract(v, w) == Vector2(FSub(v.x, w.x), FSub(v.y, w.y))
negate(v) == Vector2(FNeg(v.x), FNeg(v.y))
multiply(v, s) == Vector2(FMul(v.x, s), FMul(v.y, s))
divide(v, s) == Vector2(FDiv(v.x, s), FDiv(v.y, s))
dot(v, w) == FAdd(FMul(v.x, w.x), FMul(v.y, w.y))

RVO_EPSILON == Dec(1, 5)
One == Num(1)
sqrt(a) == FSqrt(a)
sqr(a) == FMul(a, a)
absSq(v) == dot(v, v)
abs(v) == sqrt(absSq(v))
normalize(v) == divide(v, abs(v))
det(v, w) == FSub(FMul(v.x, w.y), FMul(v.y, w.x))
leftOf(a, b, c) == det(subtract(a, c), subtract(b, a))

\* The squared distance from v3 to the point at r along the segment v1 v2,
\* r kept within the segment.
DistSqAlong(v1, v2, v3, r) ==
  IF FLt(r, Zero) THEN absSq(subtract(v3, v1))
  ELSE IF FGt(r, One) THEN absSq(subtract(v3, v2))
  ELSE absSq(subtract(v3, add(v1, multiply(subtract(v2, v1), r))))

distSqPointLineSegment(v1, v2, v3) ==
  DistSqAlong(v1, v2, v3,
              FDiv(dot(subtract(v3, v1), subtract(v2, v1)),
                   absSq(subtract(v2, v1))))

(***************************************************************************)
(* The simulator's state.  An object reference is the 1-based place of the *)
(* object in the simulator's list (agents, obstacles), 0 for null; ids are *)
(* the source's 0-based numbers.  A nullable object that is in no list     *)
(* (the default agent, a BSP node) is the empty sequence when null.        *)
(***************************************************************************)
VARIABLES
  agents,        \* Simulator.agents
  obstacles,     \* Simulator.obstacles
  defaultAgent,  \* Simulator.defaultAgent: <<>> (null) or <<agent>>
  globalTime,    \* Simulator.globalTime
  timeStep,      \* Simulator.timeStep
  kdAgents,      \* KdTree.agents: references to agents, permuted by the build
  agentTree,     \* KdTree.agentTree: the flat array of AgentTreeNode
  obstacleTree,  \* KdTree.obstacleTree: <<>> (null) or <<obstacle, left, right>>
  ret,           \* the last API call and what it returned
  defaultsSet,   \* history: setAgentDefaults was called since construction / clear()
  steps,         \* history: the doStep() calls since construction / clear()
  sets,          \* history: the agent setter calls since construction / clear()
  polygons,      \* history: [first, n] of each polygon addObstacle has stored
  observed       \* history: the calls of this run and what each doStep of
                 \* every run left, kept by an observer that is on or off

vars == <<agents, obstacles, defaultAgent, globalTime, timeStep, kdAgents,
          agentTree, obstacleTree, ret, defaultsSet, steps, sets, polygons,
          observed>>

simState == <<agents, obstacles, defaultAgent, globalTime, timeStep, kdAgents,
              agentTree, obstacleTree>>

null == <<>>
MAX_LEAF_SIZE == 10

\* new Agent()
NewAgent ==
  [ id |-> 0, maxNeighbors |-> 0, maxSpeed |-> Zero, neighborDist |-> Zero,
    radius |-> Zero, timeHorizon |-> Zero, timeHorizonObst |-> Zero,
    position |-> V(0, 0), prefVelocity |-> V(0, 0), velocity |-> V(0, 0),
    newVelocity |-> V(0, 0), agentNeighbors |-> <<>>, obstacleNeighbors |-> <<>>,
    orcaLines |-> <<>> ]

\* new AgentTreeNode()
NewAgentTreeNode ==
  [ begin |-> 0, end |-> 0, left |-> 0, right |-> 0,
    maxX |-> Zero, maxY |-> Zero, minX |-> Zero, minY |-> Zero ]

\* The observer's notes after the call op(arg): the calls made since
\* construction or the last clear(), the number of clear() calls, and, for
\* each doStep, the run it was made in, the calls that led to it and the
\* agents and global time it left.  An observer that is off notes nothing.
Observe(op, arg) ==
  IF ~observed.on THEN observed
  ELSE IF op = "clear"
  THEN [observed EXCEPT !.calls = <<>>, !.run = observed.run + 1]
  ELSE IF op = "doStep"
  THEN [observed EXCEPT
          !.calls = Append(observed.calls, [op |-> op, arg |-> arg]),
          !.seen = observed.seen \cup
                     {[run |-> observed.run,
                       calls |-> Append(observed.calls, [op |-> op, arg |-> arg]),
                       agents |-> agents', globalTime |-> globalTime']}]
  ELSE [observed EXCEPT
          !.calls = Append(observed.calls, [op |-> op, arg |-> arg])]

\* The call just made: its name, its return value (0 for void), its argument
\* list where a property needs it.
ReturnedFor(op, val, arg) ==
  /\ ret' = [op |-> op, val |-> val, arg |-> arg]
  /\ observed' = Observe(op, arg)
Returned(op, val) == ReturnedFor(op, val, <<>>)

\* The error a read through a null reference throws, and the call op(arg)
\* that ended with it.
TypeError == "TypeError"
Thrown(op, arg) == ReturnedFor(op, TypeError, arg)

\* The state after construction: the field initialisers, then clear().
Constructed ==
  /\ agents = <<>>
  /\ obstacles = <<>>
  /\ defaultAgent = null
  /\ globalTime = Zero
  /\ timeStep = Dec(1, 1)
  /\ kdAgents = <<>>
  /\ agentTree = <<>>
  /\ obstacleTree = null
  /\ ret = [op |-> "new", val |-> 0, arg |-> <<>>]
  /\ defaultsSet = FALSE
  /\ steps = 0
  /\ sets = 0
  /\ polygons = <<>>

\* A new simulator that nobody observes, and one with an observer.
Init == Constructed /\ observed = [on |-> FALSE, run |-> 0, calls |-> <<>>, seen |-> {}]
InitObserved == Constructed /\ observed = [on |-> TRUE, run |-> 0, calls |-> <<>>, seen |-> {}]

(***************************************************************************)
(* Simulator: agents, defaults, setters                                    *)
(***************************************************************************)
setAgentDefaults(neighborDist, maxNeighbors, timeHorizon, timeHorizonObst, radius, maxSpeed, velocity) ==
  /\ defaultAgent' =
       << [ (IF defaultAgent = null THEN NewAgent ELSE defaultAgent[1])
            EXCEPT !.maxNeighbors = maxNeighbors, !.maxSpeed = maxSpeed,
                   !.neighborDist = neighborDist, !.radius = radius,
                   !.timeHorizon = timeHorizon,
                   !.timeHorizonObst = timeHorizonObst,
                   !.velocity = velocity ] >>
  /\ defaultsSet' = TRUE
  /\ Returned("setAgentDefaults", 0)
  /\ UNCHANGED <<agents, obstacles, globalTime, timeStep, kdAgents, agentTree,
                 obstacleTree, steps, sets, polygons>>

\* A faulty addAgent: the agent is stored before the template is looked at.
addAgentStoredFirst(position) ==
  /\ agents' = Append(agents,
                      IF defaultAgent = null
                      THEN [NewAgent EXCEPT !.id = Len(agents),
                                            !.position = position]
                      ELSE [defaultAgent[1] EXCEPT !.id = Len(agents),
                                                   !.position = position])
  /\ ReturnedFor("addAgent", IF defaultAgent = null THEN -1 ELSE Len(agents),
                 <<position>>)
  /\ UNCHANGED <<obstacles, defaultAgent, globalTime, timeStep, kdAgents,
                 agentTree, obstacleTree, defaultsSet, steps, sets, polygons>>

addAgent(position) ==
  /\ IF defaultAgent = null
     THEN /\ ReturnedFor("addAgent", -1, <<position>>)
          /\ UNCHANGED agents
     ELSE LET d == defaultAgent[1]
              agent == [ NewAgent EXCEPT
                           !.id = Len(agents), !.maxNeighbors = d.maxNeighbors,
                           !.maxSpeed = d.maxSpeed, !.neighborDist = d.neighborDist,
                           !.position = position, !.radius = d.radius,
                           !.timeHorizon = d.timeHorizon,
                           !.timeHorizonObst = d.timeHorizonObst,
                           !.velocity = d.velocity ]
          IN /\ agents' = Append(agents, agent)
             /\ ReturnedFor("addAgent", agent.id, <<position>>)
  /\ UNCHANGED <<obstacles, defaultAgent, globalTime, timeStep, kdAgents,
                 agentTree, obstacleTree, defaultsSet, steps, sets, polygons>>

addAgentWithParams(position, neighborDist, maxNeighbors, timeHorizon, timeHorizonObst, radius, maxSpeed, velocity) ==
  LET agent == [ NewAgent EXCEPT
                   !.id = Len(agents), !.maxNeighbors = maxNeighbors,
                   !.maxSpeed = maxSpeed, !.neighborDist = neighborDist,
                   !.position = position, !.radius = radius,
                   !.timeHorizon = timeHorizon,
                   !.timeHorizonObst = timeHorizonObst, !.velocity = velocity ]
  IN /\ agents' = Append(agents, agent)
     /\ Returned("addAgentWithParams", agent.id)
     /\ UNCHANGED <<obstacles, defaultAgent, globalTime, timeStep, kdAgents,
                    agentTree, obstacleTree, defaultsSet, steps, sets, polygons>>

\* The setters of one agent field: this.agents[agentNo].field = value.  Where
\* the list has no agent agentNo the write throws and nothing is changed.
SetAgent(op, agentNo, changed) ==
  /\ agents' = IF agentNo \in 0..(Len(agents) - 1)
                THEN [agents EXCEPT ![agentNo + 1] = changed]
                ELSE agents
  /\ sets' = sets + 1
  /\ IF agentNo \in 0..(Len(agents) - 1) THEN Returned(op, 0)
     ELSE Thrown(op, <<>>)
  /\ UNCHANGED <<obstacles, defaultAgent, globalTime, timeStep, kdAgents,
                 agentTree, obstacleTree, defaultsSet, steps, polygons>>

Agent(agentNo) == agents[agentNo + 1]

setAgentMaxNeighbors(agentNo, maxNeighbors) ==
  SetAgent("setAgentMaxNeighbors", agentNo,
           [Agent(agentNo) EXCEPT !.maxNeighbors = maxNeighbors])
setAgentMaxSpeed(agentNo, maxSpeed) ==
  SetAgent("setAgentMaxSpeed", agentNo,
           [Agent(agentNo) EXCEPT !.maxSpeed = maxSpeed])
setAgentNeighborDist(agentNo, neighborDist) ==
  SetAgent("setAgentNeighborDist", agentNo,
           [Agent(agentNo) EXCEPT !.neighborDist = neighborDist])
setAgentPosition(agentNo, position) ==
  SetAgent("setAgentPosition", agentNo,
           [Agent(agentNo) EXCEPT !.position = position])
setAgentPrefVelocity(agentNo, prefVelocity) ==
  SetAgent("setAgentPrefVelocity", agentNo,
           [Agent(agentNo) EXCEPT !.prefVelocity = prefVelocity])
setAgentRadius(agentNo, radius) ==
  SetAgent("setAgentRadius", agentNo, [Agent(agentNo) EXCEPT !.radius = radius])
setAgentTimeHorizon(agentNo, timeHorizon) ==
  SetAgent("setAgentTimeHorizon", agentNo,
           [Agent(agentNo) EXCEPT !.timeHorizon = timeHorizon])
setAgentTimeHorizonObst(agentNo, timeHorizonObst) ==
  SetAgent("setAgentTimeHorizonObst", agentNo,
           [Agent(agentNo) EXCEPT !.timeHorizonObst = timeHorizonObst])
setAgentVelocity(agentNo, velocity) ==
  SetAgent("setAgentVelocity", agentNo,
           [Agent(agentNo) EXCEPT !.velocity = velocity])

setGlobalTime(t) ==
  /\ globalTime' = t
  /\ Returned("setGlobalTime", 0)
  /\ UNCHANGED <<agents, obstacles, defaultAgent, timeStep, kdAgents, agentTree,
                 obstacleTree, defaultsSet, steps, sets, polygons>>

setTimeStep(t) ==
  /\ timeStep' = t
  /\ Returned("setTimeStep", 0)
  /\ UNCHANGED <<agents, obstacles, defaultAgent, globalTime, kdAgents, agentTree,
                 obstacleTree, defaultsSet, steps, sets, polygons>>

\* A faulty clear: the default-agent template survives it.
clearKeepingDefaults ==
  /\ agents' = <<>>
  /\ kdAgents' = <<>>
  /\ agentTree' = <<>>
  /\ obstacleTree' = null
  /\ obstacles' = <<>>
  /\ globalTime' = Zero
  /\ timeStep' = Dec(1, 1)
  /\ defaultsSet' = FALSE
  /\ steps' = 0
  /\ sets' = 0
  /\ polygons' = <<>>
  /\ Returned("clear", 0)
  /\ UNCHANGED defaultAgent

\* A faulty clear: the tick length survives it.
clearKeepingTimeStep ==
  /\ agents' = <<>>
  /\ defaultAgent' = null
  /\ kdAgents' = <<>>
  /\ agentTree' = <<>>
  /\ obstacleTree' = null
  /\ obstacles' = <<>>
  /\ globalTime' = Zero
  /\ defaultsSet' = FALSE
  /\ steps' = 0
  /\ sets' = 0
  /\ polygons' = <<>>
  /\ Returned("clear", 0)
  /\ UNCHANGED timeStep

\* A faulty clear: the clock runs on.
clearKeepingTime ==
  /\ agents' = <<>>
  /\ defaultAgent' = null
  /\ kdAgents' = <<>>
  /\ agentTree' = <<>>
  /\ obstacleTree' = null
  /\ obstacles' = <<>>
  /\ timeStep' = Dec(1, 1)
  /\ defaultsSet' = FALSE
  /\ steps' = 0
  /\ sets' = 0
  /\ polygons' = <<>>
  /\ Returned("clear", 0)
  /\ UNCHANGED globalTime

clear ==
  /\ agents' = <<>>
  /\ defaultAgent' = null
  /\ kdAgents' = <<>>
  /\ agentTree' = <<>>
  /\ obstacleTree' = null
  /\ obstacles' = <<>>
  /\ globalTime' = Zero
  /\ timeStep' = Dec(1, 1)
  /\ defaultsSet' = FALSE
  /\ steps' = 0
  /\ sets' = 0
  /\ polygons' = <<>>
  /\ Returned("clear", 0)

(***************************************************************************)
(* Simulator.addObstacle                                                   *)
(***************************************************************************)
\* new Obstacle()
NewObstacle ==
  [ next |-> 0, previous |-> 0, direction |-> V(0, 0), point |-> V(0, 0),
    id |-> 0, convex |-> FALSE ]

\* A faulty loop body: the last vertex closes the cycle on the first vertex of
\* the whole list instead of the first vertex of its own polygon.
AddObstacleVertexClosedOnFirst(obs, vertices, i, obstacleNo) ==
  LET n == Len(vertices)
      self == Len(obs) + 1
      last == i = n - 1
      nextV == vertices[(IF last THEN 0 ELSE i + 1) + 1]
      prevV == vertices[(IF i = 0 THEN n - 1 ELSE i - 1) + 1]
      obstacle ==
        [ NewObstacle EXCEPT
            !.point = vertices[i + 1],
            !.previous = IF i # 0 THEN Len(obs) ELSE 0,
            !.next = IF last THEN 1 ELSE 0,
            !.direction = normalize(subtract(nextV, vertices[i + 1])),
            !.convex = IF n = 2 THEN TRUE
                       ELSE FGe(leftOf(prevV, vertices[i + 1], nextV), Zero),
            !.id = Len(obs) ]
      obs1 == IF i # 0 THEN [obs EXCEPT ![Len(obs)].next = self] ELSE obs
      obs2 == IF last THEN [obs1 EXCEPT ![1].previous = self] ELSE obs1
  IN Append(obs2, obstacle)

\* The body of the loop of addObstacle for the 0-based i, on the list obs.
AddObstacleVertex(obs, vertices, i, obstacleNo) ==
  LET n == Len(vertices)
      self == Len(obs) + 1
      last == i = n - 1
      nextV == vertices[(IF last THEN 0 ELSE i + 1) + 1]
      prevV == vertices[(IF i = 0 THEN n - 1 ELSE i - 1) + 1]
      obstacle ==
        [ NewObstacle EXCEPT
            !.point = vertices[i + 1],
            !.previous = IF i # 0 THEN Len(obs) ELSE 0,
            !.next = IF last THEN obstacleNo + 1 ELSE 0,
            !.direction = normalize(subtract(nextV, vertices[i + 1])),
            !.convex = IF n = 2 THEN TRUE
                       ELSE FGe(leftOf(prevV, vertices[i + 1], nextV), Zero),
            !.id = Len(obs) ]
      obs1 == IF i # 0 THEN [obs EXCEPT ![Len(obs)].next = self] ELSE obs
      obs2 == IF last THEN [obs1 EXCEPT ![obstacleNo + 1].previous = self] ELSE obs1
  IN Append(obs2, obstacle)

RECURSIVE AddObstacleLoop(_, _, _, _)
AddObstacleLoop(obs, vertices, i, obstacleNo) ==
  IF i >= Len(vertices) THEN obs
  ELSE CASE Evaluated(obs) ->
         AddObstacleLoop(AddObstacleVertex(obs, vertices, i, obstacleNo),
                         vertices, i + 1, obstacleNo)

\* A faulty addObstacle: only the empty list is refused, and a lone vertex is
\* stored unlinked.
addObstacleLoneVertex(vertices) ==
  /\ IF Len(vertices) < 1
     THEN /\ ReturnedFor("addObstacle", -1, vertices)
          /\ UNCHANGED <<obstacles, polygons>>
     ELSE IF Len(vertices) = 1
     THEN /\ obstacles' = Append(obstacles,
                                 [NewObstacle EXCEPT !.point = vertices[1],
                                                     !.id = Len(obstacles)])
          /\ ReturnedFor("addObstacle", -1, vertices)
          /\ UNCHANGED polygons
     ELSE /\ obstacles' = AddObstacleLoop(obstacles, vertices, 0, Len(obstacles))
          /\ polygons' = Append(polygons, [first |-> Len(obstacles),
                                           n |-> Len(vertices)])
          /\ ReturnedFor("addObstacle", Len(obstacles), vertices)
  /\ UNCHANGED <<agents, defaultAgent, globalTime, timeStep, kdAgents, agentTree,
                 obstacleTree, defaultsSet, steps, sets>>

addObstacle(vertices) ==
  /\ IF Len(vertices) < 2
     THEN /\ ReturnedFor("addObstacle", -1, vertices)
          /\ UNCHANGED <<obstacles, polygons>>
     ELSE /\ obstacles' = AddObstacleLoop(obstacles, vertices, 0, Len(obstacles))
          /\ polygons' = Append(polygons, [first |-> Len(obstacles),
                                           n |-> Len(vertices)])
          /\ ReturnedFor("addObstacle", Len(obstacles), vertices)
  /\ UNCHANGED <<agents, defaultAgent, globalTime, timeStep, kdAgents, agentTree,
                 obstacleTree, defaultsSet, steps, sets>>

\* The list holds references, and a caller may store one object more than
\* once: the object is kept at the place where it was first stored, and a
\* later place that holds it again keeps [ref |-> that place].  undefined
\* stands for the undefined or null a caller may store.  Stored is the place
\* of the object that place k of the list refers to, 0 where it is no object.
undefined == null
Stored(obs, k) ==
  IF DOMAIN obs[k] = {} THEN 0
  ELSE IF "ref" \in DOMAIN obs[k] THEN obs[k].ref
  ELSE k

\* Simulator.getObstacle: the object at the index, as a reference to it.
getObstacle(index) ==
  IF index \in 0..(Len(obstacles) - 1) /\ Stored(obstacles, index + 1) # 0
  THEN [ref |-> Stored(obstacles, index + 1)]
  ELSE undefined

\* Simulator.addObstacleVertex: the caller's obstacle is pushed as it is: a
\* new object, whose links are the places at which the linked objects were
\* first stored (0 for null), or what getObstacle returned.
addObstacleVertex(obstacle) ==
  /\ obstacles' = Append(obstacles, obstacle)
  /\ ReturnedFor("addObstacleVertex", 0, <<obstacle>>)
  /\ UNCHANGED <<agents, defaultAgent, globalTime, timeStep, kdAgents, agentTree,
                 obstacleTree, defaultsSet, steps, sets, polygons>>

(***************************************************************************)
(* KdTree.buildObstacleTree: the BSP of the obstacle edges.  The build     *)
(* appends split vertices to the simulator's list and relinks the chain,   *)
(* so the list obs is threaded through the recursion.                      *)
(***************************************************************************)

\* FloatPair
FloatPair(a, b) == [a |-> a, b |-> b]
lessThan(p1, p2) == p1.a < p2.a \/ (~(p2.a < p1.a) /\ p1.b < p2.b)
greaterThanOrEqual(p1, p2) == ~lessThan(p1, p2)
SizePair(l, r) == FloatPair(IMax(l, r), IMin(l, r))

\* Where edge j (from obstacle j1) lies with respect to the line of edge i.
j1LeftOfI(obs, i1, j1) ==
  leftOf(obs[i1].point, obs[obs[i1].next].point, obs[j1].point)
j2LeftOfI(obs, i1, j1) ==
  leftOf(obs[i1].point, obs[obs[i1].next].point, obs[obs[j1].next].point)
IsLeft(a, b) == FGe(a, FNeg(RVO_EPSILON)) /\ FGe(b, FNeg(RVO_EPSILON))
IsRight(a, b) == FLe(a, RVO_EPSILON) /\ FLe(b, RVO_EPSILON)

\* What one pass of the two inner loops reads before it compares: obstacles[j]
\* and its next, obstacleI2.point and obstacleJ2.point.  A TypeError where
\* the list holds null at j or one of the two edges has no next.
EdgeThrows(obs, i2, j1) == j1 = 0 \/ i2 = 0 \/ obs[j1].next = 0
BuildThrew(result) == "thrown" \in DOMAIN result

\* leftSize and rightSize after the edge whose ends lie at a and b is counted.
Counted(a, b, leftSize, rightSize) ==
  <<IF IsLeft(a, b) \/ ~IsRight(a, b) THEN leftSize + 1 ELSE leftSize,
    IF IsLeft(a, b) THEN rightSize ELSE rightSize + 1>>

\* The inner counting loop for candidate i from j on: <<leftSize, rightSize>>
\* when the loop ends or breaks, with TypeError as a third component when a
\* read threw.
RECURSIVE CountSides(_, _, _, _, _, _, _, _)
CountBreak(obs, list, i, j, c, minLeft, minRight) ==
  IF greaterThanOrEqual(SizePair(c[1], c[2]), SizePair(minLeft, minRight))
  THEN c
  ELSE CountSides(obs, list, i, j + 1, c[1], c[2], minLeft, minRight)
CountSides(obs, list, i, j, leftSize, rightSize, minLeft, minRight) ==
  IF j >= Len(list) THEN <<leftSize, rightSize>>
  ELSE IF i = j
  THEN CountSides(obs, list, i, j + 1, leftSize, rightSize, minLeft, minRight)
  ELSE IF EdgeThrows(obs, obs[list[i + 1]].next, list[j + 1])
  THEN <<leftSize, rightSize, TypeError>>
  ELSE CountBreak(obs, list, i, j,
                  Counted(j1LeftOfI(obs, list[i + 1], list[j + 1]),
                          j2LeftOfI(obs, list[i + 1], list[j + 1]),
                          leftSize, rightSize),
                  minLeft, minRight)

\* The outer loop over the candidates from i on; c is what the inner loop
\* counted for candidate i.  obstacles[i].next is read before the inner loop:
\* a TypeError where the list holds null at i.
\* A faulty choice: a candidate that ties with the best so far replaces it.
RECURSIVE SelectSplit(_, _, _, _)
SelectNextOnTie(obs, list, i, c, best) ==
  IF Len(c) = 3 THEN [thrown |-> TypeError]
  ELSE IF ~lessThan(SizePair(best.minLeft, best.minRight), SizePair(c[1], c[2]))
  THEN SelectSplit(obs, list, i + 1,
                   [optimalSplit |-> i, minLeft |-> c[1], minRight |-> c[2]])
  ELSE SelectSplit(obs, list, i + 1, best)
SelectNext(obs, list, i, c, best) ==
  IF Len(c) = 3 THEN [thrown |-> TypeError]
  ELSE IF lessThan(SizePair(c[1], c[2]), SizePair(best.minLeft, best.minRight))
  THEN SelectSplit(obs, list, i + 1,
                   [optimalSplit |-> i, minLeft |-> c[1], minRight |-> c[2]])
  ELSE SelectSplit(obs, list, i + 1, best)
SelectSplit(obs, list, i, best) ==
  IF i >= Len(list) THEN best
  ELSE IF list[i + 1] = 0 THEN [thrown |-> TypeError]
  ELSE SelectNext(obs, list, i,
                  CountSides(obs, list, i, 0, 0, 0, best.minLeft, best.minRight),
                  best)

\* array[counter] = ref on an array allocated with a fixed length.
SetAt(array, counter, ref) ==
  IF counter < Len(array) THEN [array EXCEPT ![counter + 1] = ref]
  ELSE Append(array, ref)

\* A faulty split: the vertex after the cut keeps its old previous link.
SplitEdgeOneWay(obs, i1, i2, j1) ==
  LET j2 == obs[j1].next
      t == FDiv(det(subtract(obs[i2].point, obs[i1].point),
                    subtract(obs[j1].point, obs[i1].point)),
                det(subtract(obs[i2].point, obs[i1].point),
                    subtract(obs[j1].point, obs[j2].point)))
      newObstacle == [ NewObstacle EXCEPT
                         !.point = add(obs[j1].point,
                                       multiply(subtract(obs[j2].point,
                                                         obs[j1].point), t)),
                         !.previous = j1, !.next = j2,
                         !.convex = TRUE, !.direction = obs[j1].direction,
                         !.id = Len(obs) ]
  IN [Append(obs, newObstacle) EXCEPT ![j1].next = Len(obs) + 1]

\* A faulty split: the new vertex takes its id after it is stored.
SplitEdgeLateId(obs, i1, i2, j1) ==
  LET j2 == obs[j1].next
      t == FDiv(det(subtract(obs[i2].point, obs[i1].point),
                    subtract(obs[j1].point, obs[i1].point)),
                det(subtract(obs[i2].point, obs[i1].point),
                    subtract(obs[j1].point, obs[j2].point)))
      newObstacle == [ NewObstacle EXCEPT
                         !.point = add(obs[j1].point,
                                       multiply(subtract(obs[j2].point,
                                                         obs[j1].point), t)),
                         !.previous = j1, !.next = j2,
                         !.convex = TRUE, !.direction = obs[j1].direction,
                         !.id = Len(obs) + 1 ]
  IN [Append(obs, newObstacle) EXCEPT ![j1].next = Len(obs) + 1,
                                      ![j2].previous = Len(obs) + 1]

\* The new vertex that cuts edge j1 on the line of edge i1, spliced in.
SplitEdge(obs, i1, i2, j1) ==
  LET j2 == obs[j1].next
      t == FDiv(det(subtract(obs[i2].point, obs[i1].point),
                    subtract(obs[j1].point, obs[i1].point)),
                det(subtract(obs[i2].point, obs[i1].point),
                    subtract(obs[j1].point, obs[j2].point)))
      newObstacle == [ NewObstacle EXCEPT
                         !.point = add(obs[j1].point,
                                       multiply(subtract(obs[j2].point,
                                                         obs[j1].point), t)),
                         !.previous = j1, !.next = j2,
                         !.convex = TRUE, !.direction = obs[j1].direction,
                         !.id = Len(obs) ]
  IN [Append(obs, newObstacle) EXCEPT ![j1].next = Len(obs) + 1,
                                      ![j2].previous = Len(obs) + 1]

\* A faulty pass: the two pieces of a split edge go to the wrong lists.
PlaceSwapped(st, i1, j1, a, b) ==
  IF IsLeft(a, b)
  THEN [st EXCEPT !.left = SetAt(st.left, st.leftCounter, j1),
                  !.leftCounter = st.leftCounter + 1]
  ELSE IF IsRight(a, b)
  THEN [st EXCEPT !.right = SetAt(st.right, st.rightCounter, j1),
                  !.rightCounter = st.rightCounter + 1]
  ELSE [st EXCEPT !.obs = SplitEdge(st.obs, i1, st.i2, j1),
                  !.left = SetAt(st.left, st.leftCounter,
                                 IF FGt(a, Zero) THEN Len(st.obs) + 1 ELSE j1),
                  !.right = SetAt(st.right, st.rightCounter,
                                  IF FGt(a, Zero) THEN j1 ELSE Len(st.obs) + 1),
                  !.leftCounter = st.leftCounter + 1,
                  !.rightCounter = st.rightCounter + 1]

\* One pass of the partition loop: edge j1, whose ends lie at a and b of the
\* line of the splitter i1, goes left, right, or is split in two.
Place(st, i1, j1, a, b) ==
  IF IsLeft(a, b)
  THEN [st EXCEPT !.left = SetAt(st.left, st.leftCounter, j1),
                  !.leftCounter = st.leftCounter + 1]
  ELSE IF IsRight(a, b)
  THEN [st EXCEPT !.right = SetAt(st.right, st.rightCounter, j1),
                  !.rightCounter = st.rightCounter + 1]
  ELSE [st EXCEPT !.obs = SplitEdge(st.obs, i1, st.i2, j1),
                  !.left = SetAt(st.left, st.leftCounter,
                                 IF FGt(a, Zero) THEN j1 ELSE Len(st.obs) + 1),
                  !.right = SetAt(st.right, st.rightCounter,
                                  IF FGt(a, Zero) THEN Len(st.obs) + 1 ELSE j1),
                  !.leftCounter = st.leftCounter + 1,
                  !.rightCounter = st.rightCounter + 1]

\* One pass of the partition loop on edge j1, or the TypeError of its reads
\* with the list as the passes before left it.  obstacleI2 is st.i2, read
\* once before the loop; obstacleJ1.next is read in the pass, so an edge
\* that an earlier pass split through another reference is met as it is now.
Passed(st, i1, j1) ==
  IF EdgeThrows(st.obs, st.i2, j1)
  THEN [obs |-> st.obs, thrown |-> TypeError]
  ELSE Place(st, i1, j1,
             leftOf(st.obs[i1].point, st.obs[st.i2].point, st.obs[j1].point),
             leftOf(st.obs[i1].point, st.obs[st.i2].point,
                    st.obs[st.obs[j1].next].point))

\* The partition loop for the splitter at index i of list, from j on.
RECURSIVE PartitionLoop(_, _, _, _)
PartitionLoop(st, list, i, j) ==
  IF BuildThrew(st) THEN st
  ELSE IF j >= Len(list) THEN st
  ELSE IF i = j THEN PartitionLoop(st, list, i, j + 1)
  ELSE CASE Evaluated(st) ->
         PartitionLoop(Passed(st, list[i + 1], list[j + 1]), list, i, j + 1)

\* The partition pass for the split sel chose: both child arrays are
\* allocated with the counted lengths and filled with null.
Partition(obs, list, sel) ==
  PartitionLoop([ obs |-> obs, i2 |-> obs[list[sel.optimalSplit + 1]].next,
                  left |-> [n \in 1..sel.minLeft |-> 0],
                  right |-> [n \in 1..sel.minRight |-> 0],
                  leftCounter |-> 0, rightCounter |-> 0 ],
                list, sel.optimalSplit, 0)

\* The result of buildObstacleTreeRecursive(list): the node (null for an empty
\* list) and the simulator's obstacle list after the splits, or, where a read
\* threw, [obs, thrown]: the list with the splits made until then.
RECURSIVE buildObstacleTreeRecursive(_, _)

\* A faulty node: the right subtree is built and then left out.
BuildRightDropped(obstacle, l, r) ==
  IF BuildThrew(r) THEN r
  ELSE [obs |-> r.obs, node |-> <<obstacle, l.node, null>>]

\* node.right, built on the list the left subtree left behind.
BuildRight(obstacle, l, r) ==
  IF BuildThrew(r) THEN r
  ELSE [obs |-> r.obs, node |-> <<obstacle, l.node, r.node>>]
BuildLeft(obstacle, l, rightObstacles) ==
  CASE Evaluated(l) ->
    IF BuildThrew(l) THEN l
    ELSE BuildRight(obstacle, l,
                    buildObstacleTreeRecursive(l.obs, rightObstacles))

\* node.obstacle and node.left, from the partition of the list.
BuildNode(obstacle, part) ==
  CASE Evaluated(part) ->
    IF BuildThrew(part) THEN part
    ELSE BuildLeft(obstacle, buildObstacleTreeRecursive(part.obs, part.left),
                   part.right)

\* The partition for the split sel chose.
BuildSplit(obs, list, sel) ==
  CASE Evaluated(sel) ->
    IF BuildThrew(sel) THEN [obs |-> obs, thrown |-> TypeError]
    ELSE BuildNode(list[sel.optimalSplit + 1], Partition(obs, list, sel))

buildObstacleTreeRecursive(obs, list) ==
  IF Len(list) = 0 THEN [obs |-> obs, node |-> null]
  ELSE BuildSplit(obs, list,
                  SelectSplit(obs, list, 0,
                              [optimalSplit |-> 0, minLeft |-> Len(list),
                               minRight |-> Len(list)]))

\* obstacles[i] = Simulator.Instance.getObstacle(i)
buildObstacleTree(obs) ==
  buildObstacleTreeRecursive(obs, [i \in 1..Len(obs) |-> Stored(obs, i)])

\* new ObstacleTreeNode()
NewObstacleTreeNode == <<0, null, null>>

\* Simulator.processObstacles, KdTree.buildObstacleTree: the tree is set to
\* a new empty node before the build, and stays that when the build throws;
\* the split vertices pushed before the throw stay in the list.
Rebuilt(built) ==
  /\ obstacles' = built.obs
  /\ obstacleTree' = IF BuildThrew(built) THEN NewObstacleTreeNode
                     ELSE built.node
  /\ IF BuildThrew(built) THEN Thrown("processObstacles", <<>>)
     ELSE Returned("processObstacles", 0)
processObstacles ==
  /\ Rebuilt(buildObstacleTree(obstacles))
  /\ UNCHANGED <<agents, defaultAgent, globalTime, timeStep, kdAgents,
                 agentTree, defaultsSet, steps, sets, polygons>>

(***************************************************************************)
(* KdTree.buildAgentTree.  kd is [agents, tree]: the tree's own array of   *)
(* agent references, which the build permutes, and its flat node array.    *)
(* ags is the simulator's agent list, read for the positions.              *)
(***************************************************************************)
\* The bounding box of kdA[begin..end-1] folded into node from index i on.
RECURSIVE BoundingBox(_, _, _, _, _)
BoundingBox(node, kdA, ags, i, end) ==
  IF i >= end THEN node
  ELSE LET p == ags[kdA[i + 1]].position
       IN CASE Evaluated(node) ->
          BoundingBox([node EXCEPT !.maxX = FMax(node.maxX, p.x),
                                   !.minX = FMin(node.minX, p.x),
                                   !.maxY = FMax(node.maxY, p.y),
                                   !.minY = FMin(node.minY, p.y)],
                      kdA, ags, i + 1, end)

Coord(ags, ref, isVertical) ==
  IF isVertical THEN ags[ref].position.x ELSE ags[ref].position.y

RECURSIVE ScanLeft(_, _, _, _, _, _)
ScanLeft(kdA, ags, left, right, isVertical, splitValue) ==
  IF left < right /\ FLt(Coord(ags, kdA[left + 1], isVertical), splitValue)
  THEN ScanLeft(kdA, ags, left + 1, right, isVertical, splitValue)
  ELSE left

RECURSIVE ScanRight(_, _, _, _, _, _)
ScanRight(kdA, ags, left, right, isVertical, splitValue) ==
  IF right > left /\ FGe(Coord(ags, kdA[right], isVertical), splitValue)
  THEN ScanRight(kdA, ags, left, right - 1, isVertical, splitValue)
  ELSE right

\* The two-pointer sweep: <<the permuted array, left>>.
RECURSIVE PartitionAgents(_, _, _, _, _, _)
PartitionAgents(kdA, ags, left, right, isVertical, splitValue) ==
  IF ~(left < right) THEN <<kdA, left>>
  ELSE LET l == ScanLeft(kdA, ags, left, right, isVertical, splitValue)
           r == ScanRight(kdA, ags, l, right, isVertical, splitValue)
       IN IF l < r
          THEN PartitionAgents([kdA EXCEPT ![l + 1] = kdA[r], ![r] = kdA[l + 1]],
                               ags, l + 1, r - 1, isVertical, splitValue)
          ELSE PartitionAgents(kdA, ags, l, r, isVertical, splitValue)

RECURSIVE buildAgentTreeRecursive(_, _, _, _, _)

\* The two children of a split node: swept is <<the permuted array, left>>.
\* A faulty collapsed partition: the left child takes two agents.
BuildChildrenPair(kd, ags, begin, end, node, n1, swept) ==
  LET collapsed == swept[2] - begin = 0
      leftSize == IF collapsed THEN 2 ELSE swept[2] - begin
      left == IF collapsed THEN swept[2] + 2 ELSE swept[2]
      n2 == [n1 EXCEPT !.left = node + 1, !.right = node + 2 * leftSize]
  IN buildAgentTreeRecursive(
       buildAgentTreeRecursive([agents |-> swept[1],
                                tree |-> [kd.tree EXCEPT ![node + 1] = n2]],
                               ags, begin, left, node + 1),
       ags, left, end, node + 2 * leftSize)

BuildChildren(kd, ags, begin, end, node, n1, swept) ==
  LET collapsed == swept[2] - begin = 0
      leftSize == IF collapsed THEN 1 ELSE swept[2] - begin
      left == IF collapsed THEN swept[2] + 1 ELSE swept[2]
      n2 == [n1 EXCEPT !.left = node + 1, !.right = node + 2 * leftSize]
  IN buildAgentTreeRecursive(
       buildAgentTreeRecursive([agents |-> swept[1],
                                tree |-> [kd.tree EXCEPT ![node + 1] = n2]],
                               ags, begin, left, node + 1),
       ags, left, end, node + 2 * leftSize)

\* The node with its bounding box n1: a leaf, or split at the middle of the
\* longer side.
BuildBox(kd, ags, begin, end, node, n1) ==
  IF end - begin > MAX_LEAF_SIZE
  THEN LET isVertical == FGt(FSub(n1.maxX, n1.minX), FSub(n1.maxY, n1.minY))
       IN BuildChildren(kd, ags, begin, end, node, n1,
            PartitionAgents(kd.agents, ags, begin, end, isVertical,
              FMul(Dec(5, 1), IF isVertical THEN FAdd(n1.maxX, n1.minX)
                              ELSE FAdd(n1.maxY, n1.minY))))
  ELSE [kd EXCEPT !.tree = [kd.tree EXCEPT ![node + 1] = n1]]

buildAgentTreeRecursive(kd, ags, begin, end, node) ==
  LET p0 == ags[kd.agents[begin + 1]].position
  IN BuildBox(kd, ags, begin, end, node,
              BoundingBox([kd.tree[node + 1] EXCEPT
                             !.begin = begin, !.end = end,
                             !.minX = p0.x, !.maxX = p0.x,
                             !.minY = p0.y, !.maxY = p0.y],
                          kd.agents, ags, begin + 1, end))

\* A faulty build: the array and the nodes are made once and kept when the
\* number of agents has changed since.
buildAgentTreeKept(kd, ags) ==
  LET fresh == IF Len(kd.agents) = 0
               THEN [agents |-> [i \in 1..Len(ags) |-> i],
                     tree |-> [i \in 1..(2 * Len(ags)) |-> NewAgentTreeNode]]
               ELSE kd
  IN IF Len(fresh.agents) # 0
     THEN buildAgentTreeRecursive(fresh, ags, 0, Len(fresh.agents), 0)
     ELSE fresh

buildAgentTree(kd, ags) ==
  LET fresh == IF Len(kd.agents) # Len(ags)
               THEN [agents |-> [i \in 1..Len(ags) |-> i],
                     tree |-> [i \in 1..(2 * Len(ags)) |-> NewAgentTreeNode]]
               ELSE kd
  IN IF Len(fresh.agents) # 0
     THEN buildAgentTreeRecursive(fresh, ags, 0, Len(fresh.agents), 0)
     ELSE fresh

(***************************************************************************)
(* Neighbour queries.  A neighbour entry is [key, value]: the squared      *)
(* distance and the reference.                                             *)
(***************************************************************************)
\* The shifting loop of the insertion sort: <<the list, the place found>>.
RECURSIVE ShiftDown(_, _, _)
ShiftDown(list, i, distSq) ==
  IF i # 0 /\ FLt(distSq, list[i].key)
  THEN ShiftDown([list EXCEPT ![i + 1] = list[i]], i - 1, distSq)
  ELSE <<list, i>>

\* The entry written at the place the shifting loop stopped at.
Placed(sh, entry) == [sh[1] EXCEPT ![sh[2] + 1] = entry]

\* A faulty insertion: the entry is pushed whether or not there is room.
InsertedAlways(nbrs, room, entry) ==
  Placed(ShiftDown(Append(nbrs, entry), Len(nbrs), entry.key), entry)

\* The list after the push (when there is room), the shift and the store.
Inserted(nbrs, room, entry) ==
  Placed(ShiftDown(IF room THEN Append(nbrs, entry) ELSE nbrs,
                   IF room THEN Len(nbrs) ELSE Len(nbrs) - 1, entry.key),
         entry)

\* rangeSq shrinks to the last key once the list is full.
Ranged(q, maxNeighbors, placed) ==
  [nbrs |-> placed,
   rangeSq |-> IF Len(placed) = maxNeighbors THEN placed[Len(placed)].key
               ELSE q.rangeSq]

\* The body of insertAgentNeighbor for an agent at squared distance distSq.
InsertNear(q, maxNeighbors, agent, distSq) ==
  IF FLt(distSq, q.rangeSq)
  THEN Ranged(q, maxNeighbors,
              Inserted(q.nbrs, Len(q.nbrs) < maxNeighbors,
                       [key |-> distSq, value |-> agent]))
  ELSE q

\* Agent.insertAgentNeighbor on q = [nbrs, rangeSq] of the agent self.
insertAgentNeighbor(ags, self, agent, q) ==
  IF self # agent
  THEN InsertNear(q, ags[self].maxNeighbors, agent,
                  absSq(subtract(ags[self].position, ags[agent].position)))
  ELSE q

RECURSIVE LeafInsert(_, _, _, _, _, _)
LeafInsert(kd, ags, self, q, i, end) ==
  IF i >= end THEN q
  ELSE CASE Evaluated(q) ->
         LeafInsert(kd, ags, self,
                    insertAgentNeighbor(ags, self, kd.agents[i + 1], q), i + 1, end)

\* The squared distance from position p to the box of a tree node.
DistSqBox(n, p) ==
  FAdd(FAdd(FAdd(sqr(FMax(Zero, FSub(n.minX, p.x))),
                 sqr(FMax(Zero, FSub(p.x, n.maxX)))),
            sqr(FMax(Zero, FSub(n.minY, p.y)))),
       sqr(FMax(Zero, FSub(p.y, n.maxY))))

RECURSIVE queryAgentTreeRecursive(_, _, _, _, _)

\* A faulty descent: the farther child is never searched.
QueryChildrenNearerOnly(kd, ags, self, q, first, distSqFirst, second, distSqSecond) ==
  IF FLt(distSqFirst, q.rangeSq)
  THEN queryAgentTreeRecursive(kd, ags, self, q, first)
  ELSE q

\* The nearer child first, then the other one if it is still in range.
QueryChildren(kd, ags, self, q, first, distSqFirst, second, distSqSecond) ==
  IF FLt(distSqFirst, q.rangeSq)
  THEN LET q1 == queryAgentTreeRecursive(kd, ags, self, q, first)
       IN IF FLt(distSqSecond, q1.rangeSq)
          THEN queryAgentTreeRecursive(kd, ags, self, q1, second)
          ELSE q1
  ELSE q

QueryNearer(kd, ags, self, q, n, distSqLeft, distSqRight) ==
  IF FLt(distSqLeft, distSqRight)
  THEN QueryChildren(kd, ags, self, q, n.left, distSqLeft, n.right, distSqRight)
  ELSE QueryChildren(kd, ags, self, q, n.right, distSqRight, n.left, distSqLeft)

queryAgentTreeRecursive(kd, ags, self, q, node) ==
  LET n == kd.tree[node + 1]
  IN IF n.end - n.begin <= MAX_LEAF_SIZE
     THEN LeafInsert(kd, ags, self, q, n.begin, n.end)
     ELSE QueryNearer(kd, ags, self, q, n,
                      DistSqBox(kd.tree[n.left + 1], ags[self].position),
                      DistSqBox(kd.tree[n.right + 1], ags[self].position))

\* Agent.insertObstacleNeighbor on the list nbrs of the agent at position.
InsertObstacle(nbrs, obstacle, rangeSq, distSq) ==
  IF FLt(distSq, rangeSq)
  THEN Inserted(nbrs, TRUE, [key |-> distSq, value |-> obstacle])
  ELSE nbrs
insertObstacleNeighbor(obs, position, obstacle, rangeSq, nbrs) ==
  InsertObstacle(nbrs, obstacle, rangeSq,
                 distSqPointLineSegment(obs[obstacle].point,
                                        obs[obs[obstacle].next].point, position))

\* A faulty query: every stored edge from i on is offered to the agent, in
\* the tree or not.
RECURSIVE ScanObstacles(_, _, _, _, _)
ScanObstacles(obs, position, rangeSq, i, nbrs) ==
  IF i > Len(obs) THEN nbrs
  ELSE ScanObstacles(obs, position, rangeSq, i + 1,
         IF FLt(leftOf(obs[i].point, obs[obs[i].next].point, position), Zero)
         THEN insertObstacleNeighbor(obs, position, i, rangeSq, nbrs)
         ELSE nbrs)
queryEveryObstacle(obs, position, rangeSq, node, nbrs) ==
  ScanObstacles(obs, position, rangeSq, 1, nbrs)

RECURSIVE queryObstacleTreeRecursive(_, _, _, _, _)

\* The far side of the node's line, visited when the line is in range; near
\* is the list after the near side.
QueryFar(obs, position, rangeSq, node, agentLeftOfLine, near) ==
  IF FLt(FDiv(sqr(agentLeftOfLine),
              absSq(subtract(obs[obs[node[1]].next].point, obs[node[1]].point))),
         rangeSq)
  THEN queryObstacleTreeRecursive(obs, position, rangeSq,
         IF FGe(agentLeftOfLine, Zero) THEN node[3] ELSE node[2],
         IF FLt(agentLeftOfLine, Zero)
         THEN insertObstacleNeighbor(obs, position, node[1], rangeSq, near)
         ELSE near)
  ELSE near

\* The near side of the node's line first.
QueryNear(obs, position, rangeSq, node, nbrs, agentLeftOfLine) ==
  QueryFar(obs, position, rangeSq, node, agentLeftOfLine,
           queryObstacleTreeRecursive(obs, position, rangeSq,
             IF FGe(agentLeftOfLine, Zero) THEN node[2] ELSE node[3], nbrs))

queryObstacleTreeRecursive(obs, position, rangeSq, node, nbrs) ==
  IF node = null THEN nbrs
  ELSE QueryNear(obs, position, rangeSq, node, nbrs,
                 leftOf(obs[node[1]].point, obs[obs[node[1]].next].point, position))

(***************************************************************************)
(* KdTree.queryVisibility                                                  *)
(***************************************************************************)
RECURSIVE queryVisibilityRecursive(_, _, _, _, _)

\* Both query points are at least radius away from the node's line.
ClearOfLine(q1LeftOfI, q2LeftOfI, invLengthI, radius) ==
  /\ FGe(FMul(sqr(q1LeftOfI), invLengthI), sqr(radius))
  /\ FGe(FMul(sqr(q2LeftOfI), invLengthI), sqr(radius))

\* The last return: q1 right of the node's line and q2 left of it.
QueryAcross(obs, q1, q2, radius, node, point1LeftOfQ, point2LeftOfQ, invLengthQ) ==
  /\ FGe(FMul(point1LeftOfQ, point2LeftOfQ), Zero)
  /\ FGt(FMul(sqr(point1LeftOfQ), invLengthQ), sqr(radius))
  /\ FGt(FMul(sqr(point2LeftOfQ), invLengthQ), sqr(radius))
  /\ queryVisibilityRecursive(obs, q1, q2, radius, node[2])
  /\ queryVisibilityRecursive(obs, q1, q2, radius, node[3])

\* The four cases of the sides of the node's line the query points lie on.
QuerySides(obs, q1, q2, radius, node, q1LeftOfI, q2LeftOfI, invLengthI) ==
  IF FGe(q1LeftOfI, Zero) /\ FGe(q2LeftOfI, Zero)
  THEN /\ queryVisibilityRecursive(obs, q1, q2, radius, node[2])
       /\ \/ ClearOfLine(q1LeftOfI, q2LeftOfI, invLengthI, radius)
          \/ queryVisibilityRecursive(obs, q1, q2, radius, node[3])
  ELSE IF FLe(q1LeftOfI, Zero) /\ FLe(q2LeftOfI, Zero)
  THEN /\ queryVisibilityRecursive(obs, q1, q2, radius, node[3])
       /\ \/ ClearOfLine(q1LeftOfI, q2LeftOfI, invLengthI, radius)
          \/ queryVisibilityRecursive(obs, q1, q2, radius, node[2])
  ELSE IF FGe(q1LeftOfI, Zero) /\ FLe(q2LeftOfI, Zero)
  THEN /\ queryVisibilityRecursive(obs, q1, q2, radius, node[2])
       /\ queryVisibilityRecursive(obs, q1, q2, radius, node[3])
  ELSE QueryAcross(obs, q1, q2, radius, node,
                   leftOf(q1, q2, obs[node[1]].point),
                   leftOf(q1, q2, obs[obs[node[1]].next].point),
                   FDiv(One, absSq(subtract(q2, q1))))

queryVisibilityRecursive(obs, q1, q2, radius, node) ==
  IF node = null THEN TRUE
  ELSE QuerySides(obs, q1, q2, radius, node,
                  leftOf(obs[node[1]].point, obs[obs[node[1]].next].point, q1),
                  leftOf(obs[node[1]].point, obs[obs[node[1]].next].point, q2),
                  FDiv(One, absSq(subtract(obs[obs[node[1]].next].point,
                                           obs[node[1]].point))))

\* Both queries read obstacle1.next and obstacle2.point at the root before
\* anything else: they throw on the empty node a failed build left, and on
\* the one-node tree of a vertex without a next.  (A tree of two or more
\* nodes has none such: its build would have thrown.)
QueryThrows(obs, node) ==
  node # null /\ (node[1] = 0 \/ obs[node[1]].next = 0)

\* Simulator.queryVisibility, KdTree.queryVisibility
queryVisibility(point1, point2, radius) ==
  /\ IF QueryThrows(obstacles, obstacleTree)
     THEN Thrown("queryVisibility", <<point1, point2, radius>>)
     ELSE ReturnedFor("queryVisibility",
                      queryVisibilityRecursive(obstacles, point1, point2, radius,
                                               obstacleTree),
                      <<point1, point2, radius>>)
  /\ UNCHANGED <<agents, obstacles, defaultAgent, globalTime, timeStep, kdAgents,
                 agentTree, obstacleTree, defaultsSet, steps, sets, polygons>>

\* The agent query of computeNeighbors, on the list with self's lists reset.
AgentQuery(kd, ags, self) ==
  [ags[self] EXCEPT !.agentNeighbors =
     IF ags[self].maxNeighbors > 0
     THEN queryAgentTreeRecursive(kd, ags, self,
            [nbrs |-> <<>>, rangeSq |-> sqr(ags[self].neighborDist)], 0).nbrs
     ELSE <<>>]

\* Agent.computeNeighbors of the agent self: the agent with both lists rebuilt.
computeNeighbors(ags, obs, kd, tree, self) ==
  AgentQuery(kd,
             [ags EXCEPT ![self].agentNeighbors = <<>>,
                         ![self].obstacleNeighbors =
                           queryObstacleTreeRecursive(obs, ags[self].position,
                             sqr(FAdd(FMul(ags[self].timeHorizonObst,
                                           ags[self].maxSpeed),
                                      ags[self].radius)),
                             tree, <<>>)],
             self)

(***************************************************************************)
(* Agent.computeNewVelocity: the ORCA lines                                *)
(***************************************************************************)
Line(direction, point) == [direction |-> direction, point |-> point]

\* The mark at the end of orcaLines of a computeNewVelocity that a TypeError
\* ended, the lines pushed before it below the mark.
Failed == [thrown |-> TypeError]
Threw(lines) == Len(lines) > 0 /\ DOMAIN lines[Len(lines)] = {"thrown"}

\* (x * leg - y * r, x * r + y * leg) / distSq: the left tangent direction.
LeftLeg(rp, leg, r, distSq) ==
  divide(Vector2(FSub(FMul(rp.x, leg), FMul(rp.y, r)),
                 FAdd(FMul(rp.x, r), FMul(rp.y, leg))), distSq)
\* (x * leg + y * r, -x * r + y * leg) / distSq: the right tangent direction.
RightLeg(rp, leg, r, distSq) ==
  divide(Vector2(FAdd(FMul(rp.x, leg), FMul(rp.y, r)),
                 FAdd(FMul(FNeg(rp.x), r), FMul(rp.y, leg))), distSq)

\* base + (-direction.y, direction.x) * (radius * invTimeHorizonObst)
OffsetPoint(base, direction, offset) ==
  add(base, multiply(Vector2(FNeg(direction.y), direction.x), offset))

\* The line through cutOff + unitW * offset at a right angle to unitW.
CutOffLine(unitW, cutOff, offset) ==
  Line(Vector2(unitW.y, FNeg(unitW.x)), add(cutOff, multiply(unitW, offset)))

\* The last part of a pass of the obstacle loop: the line of the cut-off
\* segment or of the nearer leg.
ObstacleLegLine(o1, orcaLines, offset, c, distSqCutoff, distSqLeft, distSqRight) ==
  IF FLe(distSqCutoff, distSqLeft) /\ FLe(distSqCutoff, distSqRight)
  THEN Append(orcaLines,
         Line(negate(o1.direction),
              OffsetPoint(c.leftCutOff, negate(o1.direction), offset)))
  ELSE IF FLe(distSqLeft, distSqRight)
  THEN (IF c.isLeftLegForeign THEN orcaLines
        ELSE Append(orcaLines,
               Line(c.leftLegDirection,
                    OffsetPoint(c.leftCutOff, c.leftLegDirection, offset))))
  ELSE IF c.isRightLegForeign THEN orcaLines
  ELSE Append(orcaLines,
         Line(negate(c.rightLegDirection),
              OffsetPoint(c.rightCutOff, negate(c.rightLegDirection), offset)))

\* The velocity projected on the cut-off segment (t) and on the legs: the
\* line of a cut-off centre, or the distances to the three parts.
ObstacleProjected(a, o1, same, orcaLines, offset, c, t, tLeft, tRight) ==
  IF (FLt(t, Zero) /\ FLt(tLeft, Zero))
     \/ (same /\ FLt(tLeft, Zero) /\ FLt(tRight, Zero))
  THEN Append(orcaLines,
         CutOffLine(normalize(subtract(a.velocity, c.leftCutOff)),
                    c.leftCutOff, offset))
  ELSE IF FGt(t, One) /\ FLt(tRight, Zero)
  THEN Append(orcaLines,
         CutOffLine(normalize(subtract(a.velocity, c.rightCutOff)),
                    c.rightCutOff, offset))
  ELSE ObstacleLegLine(o1, orcaLines, offset, c,
         IF FLt(t, Zero) \/ FGt(t, One) \/ same THEN POSITIVE_INFINITY
         ELSE absSq(subtract(a.velocity,
                add(c.leftCutOff,
                    multiply(subtract(c.rightCutOff, c.leftCutOff), t)))),
         IF FLt(tLeft, Zero) THEN POSITIVE_INFINITY
         ELSE absSq(subtract(a.velocity,
                add(c.leftCutOff, multiply(c.leftLegDirection, tLeft)))),
         IF FLt(tRight, Zero) THEN POSITIVE_INFINITY
         ELSE absSq(subtract(a.velocity,
                add(c.rightCutOff, multiply(c.rightLegDirection, tRight)))))

\* The cone c of the obstacle: its legs, whether they are a neighbouring
\* edge's, and the cut-off centres.
ObstacleCone(a, o1, same, orcaLines, offset, c) ==
  ObstacleProjected(a, o1, same, orcaLines, offset, c,
    IF same THEN Dec(5, 1)
    ELSE FDiv(dot(subtract(a.velocity, c.leftCutOff),
                  subtract(c.rightCutOff, c.leftCutOff)),
              absSq(subtract(c.rightCutOff, c.leftCutOff))),
    dot(subtract(a.velocity, c.leftCutOff), c.leftLegDirection),
    dot(subtract(a.velocity, c.rightCutOff), c.rightLegDirection))

\* The legs as computed from the vertices, replaced by the neighbouring edges
\* where those cut into the cone.  same: obstacle1 and obstacle2 are one
\* object.  A convex obstacle1 without a previous vertex ends the pass in a
\* TypeError (leftNeighbor.direction), marked at the end of orcaLines.
ObstacleLegs(a, o1, o2, leftNeighbor, orcaLines, relativePosition1, relativePosition2, invTimeHorizonObst, leftLegDirection, rightLegDirection, same) ==
  IF o1.convex /\ o1.previous = 0 THEN Append(orcaLines, Failed) ELSE
  LET isLeftLegForeign ==
        o1.convex /\ FGe(det(leftLegDirection, negate(leftNeighbor.direction)),
                         Zero)
      isRightLegForeign ==
        o2.convex /\ FLe(det(rightLegDirection, o2.direction), Zero)
  IN ObstacleCone(a, o1, same, orcaLines,
                  FMul(a.radius, invTimeHorizonObst),
                  [ isLeftLegForeign |-> isLeftLegForeign,
                    isRightLegForeign |-> isRightLegForeign,
                    leftLegDirection |->
                      IF isLeftLegForeign THEN negate(leftNeighbor.direction)
                      ELSE leftLegDirection,
                    rightLegDirection |->
                      IF isRightLegForeign THEN o2.direction
                      ELSE rightLegDirection,
                    leftCutOff |-> multiply(relativePosition1, invTimeHorizonObst),
                    rightCutOff |-> multiply(relativePosition2, invTimeHorizonObst) ])

\* The vertex the legs are taken from: 1 = obstacle1, 2 = obstacle2, 3 = both.
LegCase(s, distSqLine, radiusSq) ==
  IF FLt(s, Zero) /\ FLe(distSqLine, radiusSq) THEN 1
  ELSE IF FGt(s, One) /\ FLe(distSqLine, radiusSq) THEN 2 ELSE 3

\* The collision with the edge itself, then the leg directions.
ObstacleEdge(a, o1, o2, leftNeighbor, orcaLines, relativePosition1, relativePosition2, invTimeHorizonObst, distSq1, distSq2, radiusSq, s, distSqLine, same) ==
  IF FGe(s, Zero) /\ FLe(s, One) /\ FLe(distSqLine, radiusSq)
  THEN Append(orcaLines, Line(negate(o1.direction), Vector2(Zero, Zero)))
  ELSE IF LegCase(s, distSqLine, radiusSq) = 1 /\ ~o1.convex THEN orcaLines
  ELSE IF LegCase(s, distSqLine, radiusSq) = 2 /\ ~o2.convex THEN orcaLines
  ELSE ObstacleLegs(a, o1, o2, leftNeighbor, orcaLines, relativePosition1,
         relativePosition2, invTimeHorizonObst,
         IF LegCase(s, distSqLine, radiusSq) = 2
         THEN LeftLeg(relativePosition2, sqrt(FSub(distSq2, radiusSq)), a.radius,
                      distSq2)
         ELSE IF LegCase(s, distSqLine, radiusSq) = 1 \/ o1.convex
         THEN LeftLeg(relativePosition1, sqrt(FSub(distSq1, radiusSq)), a.radius,
                      distSq1)
         ELSE negate(o1.direction),
         IF LegCase(s, distSqLine, radiusSq) = 1
         THEN RightLeg(relativePosition1, sqrt(FSub(distSq1, radiusSq)), a.radius,
                       distSq1)
         ELSE IF LegCase(s, distSqLine, radiusSq) = 2 \/ o2.convex
         THEN RightLeg(relativePosition2, sqrt(FSub(distSq2, radiusSq)), a.radius,
                       distSq2)
         ELSE o1.direction,
         same)

\* The collisions with the two vertices; s is where the agent projects on the
\* edge.
ObstacleVertex(a, o1, o2, leftNeighbor, orcaLines, relativePosition1, relativePosition2, invTimeHorizonObst, distSq1, distSq2, radiusSq, s, same) ==
  IF FLt(s, Zero) /\ FLe(distSq1, radiusSq)
  THEN (IF o1.convex
        THEN Append(orcaLines,
               Line(normalize(Vector2(FNeg(relativePosition1.y),
                                      relativePosition1.x)),
                    Vector2(Zero, Zero)))
        ELSE orcaLines)
  ELSE IF FGt(s, One) /\ FLe(distSq2, radiusSq)
  THEN (IF o2.convex
        THEN Append(orcaLines,
               Line(normalize(Vector2(FNeg(relativePosition2.y),
                                      relativePosition2.x)),
                    Vector2(Zero, Zero)))
        ELSE orcaLines)
  ELSE ObstacleEdge(a, o1, o2, leftNeighbor, orcaLines, relativePosition1,
         relativePosition2, invTimeHorizonObst, distSq1, distSq2, radiusSq, s,
         absSq(subtract(negate(relativePosition1),
                        multiply(subtract(o2.point, o1.point), s))),
         same)

\* An earlier line already keeps the agent off this obstacle.
Covers(line, relativePosition1, relativePosition2, invTimeHorizonObst, radius) ==
  /\ FGe(FSub(det(subtract(multiply(relativePosition1, invTimeHorizonObst),
                           line.point), line.direction),
              FMul(invTimeHorizonObst, radius)), FNeg(RVO_EPSILON))
  /\ FGe(FSub(det(subtract(multiply(relativePosition2, invTimeHorizonObst),
                           line.point), line.direction),
              FMul(invTimeHorizonObst, radius)), FNeg(RVO_EPSILON))

ObstacleCovered(a, o1, o2, leftNeighbor, orcaLines, relativePosition1, relativePosition2, invTimeHorizonObst, same) ==
  IF \E j \in 1..Len(orcaLines) :
       Covers(orcaLines[j], relativePosition1, relativePosition2,
              invTimeHorizonObst, a.radius)
  THEN orcaLines
  ELSE ObstacleVertex(a, o1, o2, leftNeighbor, orcaLines, relativePosition1,
         relativePosition2, invTimeHorizonObst, absSq(relativePosition1),
         absSq(relativePosition2), sqr(a.radius),
         FDiv(FNeg(dot(relativePosition1, subtract(o2.point, o1.point))),
              absSq(subtract(o2.point, o1.point))),
         same)

\* One pass of the obstacle loop: orcaLines after the neighbour obstacle1, a
\* place in the list; obstacle2 is the same object where obstacle1 is its own
\* next.
ObstacleOrcaLine(a, obs, orcaLines, obstacle1) ==
  ObstacleCovered(a, obs[obstacle1], obs[obs[obstacle1].next],
                  obs[obs[obstacle1].previous], orcaLines,
                  subtract(obs[obstacle1].point, a.position),
                  subtract(obs[obs[obstacle1].next].point, a.position),
                  FDiv(One, a.timeHorizonObst),
                  obs[obstacle1].next = obstacle1)

\* The line with the direction found and the point velocity + u / 2.
HalfPlane(a, direction, u) ==
  Line(direction, add(a.velocity, multiply(u, Dec(5, 1))))

\* The line of the cut-off circle: w is the velocity relative to its centre.
CircleLine(a, unitW, wLength, combinedRadius, invTime) ==
  HalfPlane(a, Vector2(unitW.y, FNeg(unitW.x)),
            multiply(unitW, FSub(FMul(combinedRadius, invTime), wLength)))

\* The line of a leg of the velocity obstacle.
LegLine(a, relativeVelocity, direction) ==
  HalfPlane(a, direction,
            subtract(multiply(direction, dot(relativeVelocity, direction)),
                     relativeVelocity))

\* No collision: project on the cut-off circle or on the nearer leg.
AgentNoCollision(a, relativePosition, relativeVelocity, distSq, combinedRadius, invTimeHorizon, w) ==
  IF FLt(dot(w, relativePosition), Zero)
     /\ FGt(sqr(dot(w, relativePosition)), FMul(sqr(combinedRadius), absSq(w)))
  THEN CircleLine(a, divide(w, sqrt(absSq(w))), sqrt(absSq(w)), combinedRadius,
                  invTimeHorizon)
  ELSE LegLine(a, relativeVelocity,
         IF FGt(det(relativePosition, w), Zero)
         THEN LeftLeg(relativePosition,
                      sqrt(FSub(distSq, sqr(combinedRadius))), combinedRadius,
                      distSq)
         ELSE negate(RightLeg(relativePosition,
                              sqrt(FSub(distSq, sqr(combinedRadius))),
                              combinedRadius, distSq)))

\* Collision: project on the cut-off circle of one time step.
AgentCollision(a, combinedRadius, invTimeStep, w) ==
  CircleLine(a, divide(w, abs(w)), abs(w), combinedRadius, invTimeStep)

AgentVO(a, relativePosition, relativeVelocity, distSq, combinedRadius, dt) ==
  IF FGt(distSq, sqr(combinedRadius))
  THEN AgentNoCollision(a, relativePosition, relativeVelocity, distSq,
         combinedRadius, FDiv(One, a.timeHorizon),
         subtract(relativeVelocity,
                  multiply(relativePosition, FDiv(One, a.timeHorizon))))
  ELSE AgentCollision(a, combinedRadius, FDiv(One, dt),
         subtract(relativeVelocity, multiply(relativePosition, FDiv(One, dt))))

\* A faulty line: the neighbour's velocity is read from its newVelocity, which
\* is this tick's for the agents computed earlier in the loop.
AgentOrcaLineAhead(a, other, dt) ==
  AgentVO(a, subtract(other.position, a.position),
          subtract(a.velocity, other.newVelocity),
          absSq(subtract(other.position, a.position)),
          FAdd(a.radius, other.radius), dt)

\* The ORCA line of agent a for the neighbouring agent other.
AgentOrcaLine(a, other, dt) ==
  AgentVO(a, subtract(other.position, a.position),
          subtract(a.velocity, other.velocity),
          absSq(subtract(other.position, a.position)),
          FAdd(a.radius, other.radius), dt)

RECURSIVE ObstacleLines(_, _, _, _)
ObstacleLines(a, obs, orcaLines, i) ==
  IF i >= Len(a.obstacleNeighbors) \/ Threw(orcaLines) THEN orcaLines
  ELSE CASE Evaluated(orcaLines) ->
         ObstacleLines(a, obs,
           ObstacleOrcaLine(a, obs, orcaLines, a.obstacleNeighbors[i + 1].value),
           i + 1)

AgentLines(a, ags, dt) ==
  [i \in 1..Len(a.agentNeighbors) |->
     AgentOrcaLine(a, ags[a.agentNeighbors[i].value], dt)]

(***************************************************************************)
(* Agent: the linear programs.  this.newVelocity is passed and returned.   *)
(***************************************************************************)
OnLine(line, t) == add(line.point, multiply(line.direction, t))

\* The loop of linearProgram1 over the earlier lines from i on:
\* [ok, tLeft, tRight], ok = FALSE where the source returns false.
RECURSIVE ClipLine(_, _, _, _, _)

\* One pass of the loop, for line i.
ClipBy(lines, lineNo, i, tLeft, tRight, denominator, numerator) ==
  LET l == IF FGe(denominator, Zero) THEN tLeft
           ELSE FMax(tLeft, FDiv(numerator, denominator))
      r == IF FGe(denominator, Zero) THEN FMin(tRight, FDiv(numerator, denominator))
           ELSE tRight
  IN IF FLe(FAbs(denominator), RVO_EPSILON)
     THEN IF FLt(numerator, Zero)
          THEN [ok |-> FALSE, tLeft |-> tLeft, tRight |-> tRight]
          ELSE ClipLine(lines, lineNo, i + 1, tLeft, tRight)
     ELSE IF FGt(l, r)
          THEN [ok |-> FALSE, tLeft |-> l, tRight |-> r]
          ELSE ClipLine(lines, lineNo, i + 1, l, r)

ClipLine(lines, lineNo, i, tLeft, tRight) ==
  IF i >= lineNo THEN [ok |-> TRUE, tLeft |-> tLeft, tRight |-> tRight]
  ELSE ClipBy(lines, lineNo, i, tLeft, tRight,
              det(lines[lineNo + 1].direction, lines[i + 1].direction),
              det(lines[i + 1].direction,
                  subtract(lines[lineNo + 1].point, lines[i + 1].point)))

\* The end of linearProgram1: the point of the clipped line that is optimal.
Optimal(line, optVelocity, directionOpt, result, clip) ==
  IF ~clip.ok THEN [ok |-> FALSE, value |-> result]
  ELSE IF directionOpt
  THEN [ok |-> TRUE,
        value |-> IF FGt(dot(optVelocity, line.direction), Zero)
                  THEN OnLine(line, clip.tRight) ELSE OnLine(line, clip.tLeft)]
  ELSE LET t == dot(line.direction, subtract(optVelocity, line.point))
       IN [ok |-> TRUE,
           value |-> IF FLt(t, clip.tLeft) THEN OnLine(line, clip.tLeft)
                     ELSE IF FGt(t, clip.tRight) THEN OnLine(line, clip.tRight)
                     ELSE OnLine(line, t)]

\* The line cut to the max-speed circle, then by the earlier lines.
InCircle(lines, lineNo, optVelocity, directionOpt, result, dotProduct, discriminant) ==
  IF FLt(discriminant, Zero) THEN [ok |-> FALSE, value |-> result]
  ELSE Optimal(lines[lineNo + 1], optVelocity, directionOpt, result,
               ClipLine(lines, lineNo, 0,
                        FSub(FNeg(dotProduct), sqrt(discriminant)),
                        FAdd(FNeg(dotProduct), sqrt(discriminant))))

\* [ok, value]: the return value and result.value (unchanged when not ok).
linearProgram1(lines, lineNo, radius, optVelocity, directionOpt, result) ==
  InCircle(lines, lineNo, optVelocity, directionOpt, result,
           dot(lines[lineNo + 1].point, lines[lineNo + 1].direction),
           FSub(FAdd(sqr(dot(lines[lineNo + 1].point, lines[lineNo + 1].direction)),
                     sqr(radius)),
                absSq(lines[lineNo + 1].point)))

\* The loop of linearProgram2 from line i on: [lineFail, newVelocity].
RECURSIVE LP2Loop(_, _, _, _, _, _)

\* Line i after linearProgram1 returned lp1; tempResult is newVelocity.
LP2Next(lines, radius, optVelocity, directionOpt, tempResult, i, lp1) ==
  IF ~lp1.ok THEN [lineFail |-> i, newVelocity |-> tempResult]
  ELSE LP2Loop(lines, radius, optVelocity, directionOpt, lp1.value, i + 1)

LP2Loop(lines, radius, optVelocity, directionOpt, newVelocity, i) ==
  IF i >= Len(lines) THEN [lineFail |-> Len(lines), newVelocity |-> newVelocity]
  ELSE IF FGt(det(lines[i + 1].direction,
                  subtract(lines[i + 1].point, newVelocity)), Zero)
  THEN LP2Next(lines, radius, optVelocity, directionOpt, newVelocity, i,
               linearProgram1(lines, i, radius, optVelocity, directionOpt,
                              newVelocity))
  ELSE LP2Loop(lines, radius, optVelocity, directionOpt, newVelocity, i + 1)

linearProgram2(lines, radius, optVelocity, directionOpt) ==
  LP2Loop(lines, radius, optVelocity, directionOpt,
          IF directionOpt THEN multiply(optVelocity, radius)
          ELSE IF FGt(absSq(optVelocity), sqr(radius))
          THEN multiply(normalize(optVelocity), radius)
          ELSE optVelocity,
          0)

\* projLines after line j is projected on line i.
Projected(projLines, li, lj, determinant) ==
  IF FLe(FAbs(determinant), RVO_EPSILON)
  THEN IF FGt(dot(li.direction, lj.direction), Zero) THEN projLines
       ELSE Append(projLines,
              Line(normalize(subtract(lj.direction, li.direction)),
                   multiply(add(li.point, lj.point), Dec(5, 1))))
  ELSE Append(projLines,
         Line(normalize(subtract(lj.direction, li.direction)),
              add(li.point,
                  multiply(li.direction,
                           FDiv(det(lj.direction, subtract(li.point, lj.point)),
                                determinant)))))

\* The projected lines of line i against the lines numObstLines..i-1, from j on.
RECURSIVE ProjLines(_, _, _, _)
ProjLines(lines, projLines, i, j) ==
  IF j >= i THEN projLines
  ELSE CASE Evaluated(projLines) ->
         ProjLines(lines,
                   Projected(projLines, lines[i + 1], lines[j + 1],
                             det(lines[i + 1].direction, lines[j + 1].direction)),
                   i, j + 1)

\* The loop of linearProgram3 from line i on: this.newVelocity at its end.
RECURSIVE LP3Loop(_, _, _, _, _, _)

\* Line i after linearProgram2 ran on its projected lines and this.newVelocity
\* was set again to kept.
LP3Next(lines, numObstLines, radius, kept, i) ==
  LP3Loop(lines, numObstLines, radius, kept,
          det(lines[i + 1].direction, subtract(lines[i + 1].point, kept)), i + 1)

\* linearProgram2 leaves its answer in this.newVelocity; the source then
\* overwrites it: with tempResult when it failed, with result.value, which
\* nothing has written since it was created from this.newVelocity, when it
\* succeeded.
LP3Project(lines, numObstLines, radius, newVelocity, i, projLines) ==
  LET tempResult == newVelocity
      result == newVelocity
  IN LP3Next(lines, numObstLines, radius,
             IF linearProgram2(projLines, radius,
                               Vector2(FNeg(lines[i + 1].direction.y),
                                       lines[i + 1].direction.x),
                               TRUE).lineFail < Len(projLines)
             THEN tempResult ELSE result,
             i)

LP3Loop(lines, numObstLines, radius, newVelocity, distance, i) ==
  IF i >= Len(lines) THEN newVelocity
  ELSE IF FGt(det(lines[i + 1].direction,
                  subtract(lines[i + 1].point, newVelocity)), distance)
  THEN LP3Project(lines, numObstLines, radius, newVelocity, i,
                  ProjLines(lines, SubSeq(lines, 1, numObstLines), i,
                            numObstLines))
  ELSE LP3Loop(lines, numObstLines, radius, newVelocity, distance, i + 1)

linearProgram3(lines, numObstLines, beginLine, radius, newVelocity) ==
  LP3Loop(lines, numObstLines, radius, newVelocity, Zero, beginLine)

\* The end of computeNewVelocity: linearProgram3 where linearProgram2 failed.
Solved(a, orcaLines, numObstLines, lp2) ==
  [a EXCEPT !.orcaLines = orcaLines,
            !.newVelocity =
              IF lp2.lineFail < Len(orcaLines)
              THEN linearProgram3(orcaLines, numObstLines, lp2.lineFail,
                                  a.maxSpeed, lp2.newVelocity)
              ELSE lp2.newVelocity]

\* numObstLines: the length of orcaLines where the source reads it, which is
\* below the loop over the agent neighbours.
NumObstLines(orcaLines) == Len(orcaLines)

\* The linear programs on the lines of both loops; numObstLines is read once
\* both loops have run.
Solve(a, orcaLines) ==
  CASE Evaluated(orcaLines) ->
    Solved(a, orcaLines, NumObstLines(orcaLines),
           linearProgram2(orcaLines, a.maxSpeed, a.prefVelocity, FALSE))

\* The rest of computeNewVelocity below the obstacle loop, which a TypeError
\* in that loop does not reach.
AfterObstacles(ags, dt, self, orcaLines) ==
  IF Threw(orcaLines) THEN [ags[self] EXCEPT !.orcaLines = orcaLines]
  ELSE Solve(ags[self], orcaLines \o AgentLines(ags[self], ags, dt))

\* Agent.computeNewVelocity: the agent with orcaLines and newVelocity set.
computeNewVelocity(ags, obs, dt, self) ==
  AfterObstacles(ags, dt, self, ObstacleLines(ags[self], obs, <<>>, 0))

\* A faulty update: the position moves by the velocity of the last tick.
updateByOldVelocity(a, dt) ==
  [a EXCEPT !.velocity = a.newVelocity,
            !.position = add(a.position, multiply(a.velocity, dt))]

\* Agent.update
update(a, dt) ==
  [a EXCEPT !.velocity = a.newVelocity,
            !.position = add(a.position, multiply(a.newVelocity, dt))]

(***************************************************************************)
(* Simulator.doStep                                                        *)
(***************************************************************************)
\* The agent at place i with its new velocity computed.
WithNewVelocity(ags, obs, dt, i) ==
  [ags EXCEPT ![i] = computeNewVelocity(ags, obs, dt, i)]

\* The first loop of doStep from the agent at place i on; a TypeError in the
\* agent before ends it.
RECURSIVE ComputeLoop(_, _, _, _, _, _)
ComputeLoop(ags, obs, kd, tree, dt, i) ==
  IF i > Len(ags) \/ (i > 1 /\ Threw(ags[i - 1].orcaLines)) THEN ags
  ELSE CASE Evaluated(ags) ->
         ComputeLoop(
           WithNewVelocity([ags EXCEPT ![i] = computeNeighbors(ags, obs, kd, tree, i)],
                           obs, dt, i),
           obs, kd, tree, dt, i + 1)

\* The second loop of doStep.
RECURSIVE UpdateLoop(_, _, _)
UpdateLoop(ags, dt, i) ==
  IF i > Len(ags) THEN ags
  ELSE UpdateLoop([ags EXCEPT ![i] = update(ags[i], dt)], dt, i + 1)

\* A faulty doStep: the tree's array is the simulator's own list, so the
\* build's swaps reorder the agents.
Reordered(ags, order) == [k \in 1..Len(ags) |-> ags[order[k]]]
doStepSharedList ==
  LET kd == buildAgentTree([agents |-> kdAgents, tree |-> agentTree], agents)
      computed == ComputeLoop(agents, obstacles, kd, obstacleTree, timeStep, 1)
  IN /\ kdAgents' = kd.agents
     /\ agentTree' = kd.tree
     /\ agents' = Reordered(UpdateLoop(computed, timeStep, 1), kd.agents)
     /\ globalTime' = FAdd(globalTime, timeStep)
     /\ steps' = steps + 1
     /\ Returned("doStep", FAdd(globalTime, timeStep))
     /\ UNCHANGED <<obstacles, defaultAgent, timeStep, obstacleTree, defaultsSet,
                    sets, polygons>>

\* A faulty doStep: the tree is built once more after the commit.
doStepRebuiltLast ==
  LET kd == buildAgentTree([agents |-> kdAgents, tree |-> agentTree], agents)
      computed == ComputeLoop(agents, obstacles, kd, obstacleTree, timeStep, 1)
      updated == UpdateLoop(computed, timeStep, 1)
      last == buildAgentTree(kd, updated)
  IN /\ kdAgents' = last.agents
     /\ agentTree' = last.tree
     /\ agents' = updated
     /\ globalTime' = FAdd(globalTime, timeStep)
     /\ steps' = steps + 1
     /\ Returned("doStep", FAdd(globalTime, timeStep))
     /\ UNCHANGED <<obstacles, defaultAgent, timeStep, obstacleTree, defaultsSet,
                    sets, polygons>>

\* The agents as a TypeError in the first loop leaves them: the mark taken
\* off the lines of the agent it ended.
Unmarked(lines) == IF Threw(lines) THEN SubSeq(lines, 1, Len(lines) - 1) ELSE lines
Interrupted(computed) ==
  [i \in 1..Len(computed) |->
     [computed[i] EXCEPT !.orcaLines = Unmarked(computed[i].orcaLines)]]

\* doStep below the build of the agent tree, on the agents the first loop
\* computed.  Where computeNewVelocity threw, the agents up to that one keep
\* what was computed, nothing is committed and the clock stands.
Stepped(computed) ==
  IF \E i \in 1..Len(computed) : Threw(computed[i].orcaLines)
  THEN /\ agents' = Interrupted(computed)
       /\ globalTime' = globalTime
       /\ Thrown("doStep", <<>>)
  ELSE /\ agents' = UpdateLoop(computed, timeStep, 1)
       /\ globalTime' = FAdd(globalTime, timeStep)
       /\ Returned("doStep", FAdd(globalTime, timeStep))

\* With an agent to compute, on a tree whose query throws, the call ends in
\* computeNeighbors of the first agent: the agent tree is built and that
\* agent's obstacleNeighbors are emptied, nothing else.
doStep ==
  LET kd == buildAgentTree([agents |-> kdAgents, tree |-> agentTree], agents)
  IN /\ kdAgents' = kd.agents
     /\ agentTree' = kd.tree
     /\ steps' = steps + 1
     /\ IF Len(agents) > 0 /\ QueryThrows(obstacles, obstacleTree)
        THEN /\ agents' = [agents EXCEPT ![1].obstacleNeighbors = <<>>]
             /\ globalTime' = globalTime
             /\ Thrown("doStep", <<>>)
        ELSE Stepped(ComputeLoop(agents, obstacles, kd, obstacleTree, timeStep, 1))
     /\ UNCHANGED <<obstacles, defaultAgent, timeStep, obstacleTree,
                    defaultsSet, sets, polygons>>

(***************************************************************************)
(* Simulator: the getters the properties read                              *)
(***************************************************************************)
getGlobalTime == globalTime
getNumAgents == Len(agents)
getNumObstacleVertices == Len(obstacles)
\* this.obstacles[vertexNo].next.id and .previous.id: a TypeError where the
\* list has no object at vertexNo or the link is null.
ObstacleAt(vertexNo) ==
  IF vertexNo \in 0..(Len(obstacles) - 1) THEN Stored(obstacles, vertexNo + 1)
  ELSE 0
getNextObstacleVertexNo(vertexNo) ==
  IF ObstacleAt(vertexNo) # 0 /\ obstacles[ObstacleAt(vertexNo)].next # 0
  THEN obstacles[obstacles[ObstacleAt(vertexNo)].next].id
  ELSE TypeError
getPrevObstacleVertexNo(vertexNo) ==
  IF ObstacleAt(vertexNo) # 0 /\ obstacles[ObstacleAt(vertexNo)].previous # 0
  THEN obstacles[obstacles[ObstacleAt(vertexNo)].previous].id
  ELSE TypeError

(***************************************************************************)
(* Spec: building a scene.  A caller sets the defaults, adds agents and    *)
(* polygons, processes the obstacles, sets the clock and clears, in any    *)
(* order.  A refused addAgent adds nothing, so only the successful ones    *)
(* count towards MaxAgents.                                                *)
(***************************************************************************)
MaxAgents == 1
MaxVertices == 6

\* A polygon with no vertex, with one, a two-vertex segment, and a
\* counterclockwise triangle whose edges the segment's line crosses.
Segment == <<V(3, 2), V(9, 2)>>
Triangle == <<V(4, 1), V(8, 1), V(4, 5)>>
Polygons == {<<>>, <<V(0, 0)>>, Segment, Triangle}

SetDefaults ==
  setAgentDefaults(Num(15), 2, Num(2), Num(2), One, One, V(0, 0))
AddAgent ==
  /\ defaultAgent = null \/ Len(agents) < MaxAgents
  /\ addAgent(V(0, 0))
AddAgentWithParams ==
  /\ Len(agents) < MaxAgents
  /\ addAgentWithParams(V(3, 0), Num(10), 1, Num(5), Num(5), Dec(5, 1), Num(2),
                        V(-1, 0))
AddObstacle ==
  \E vertices \in Polygons :
    /\ Len(obstacles) + Len(vertices) <= MaxVertices
    /\ addObstacle(vertices)
SetGlobalTime == setGlobalTime(Num(5))

Next ==
  \/ SetDefaults
  \/ AddAgent
  \/ AddAgentWithParams
  \/ AddObstacle
  \/ processObstacles
  \/ SetGlobalTime
  \/ clear

Spec == Init /\ [][Next]_vars

(***************************************************************************)
(* SpecVertex: besides polygons, a caller stores obstacle vertices of its  *)
(* own with addObstacleVertex: one whose links were left null, one linked  *)
(* to itself, one linked to the first vertex of the list, and what         *)
(* getObstacle returns for an index (an object the list holds already, or  *)
(* undefined).  The obstacles are processed, an agent steps and a caller   *)
(* asks for visibility, whether or not the build went through.             *)
(***************************************************************************)
MaxVertexVertices == 3
MaxVertexSteps == 1

\* The caller's vertex at (1, 1), numbered as the next in the list, without
\* links; the same one with itself as next and previous; a convex one at
\* (-1, 2) numbered 0 whose next is the first vertex of the list and whose
\* previous is null; and that one with the first vertex as its previous too.
Loose == [NewObstacle EXCEPT !.point = V(1, 1), !.id = Len(obstacles)]
Looped ==
  [Loose EXCEPT !.next = Len(obstacles) + 1, !.previous = Len(obstacles) + 1]
Hooked ==
  [Loose EXCEPT !.point = V(-1, 2), !.next = 1, !.id = 0, !.convex = TRUE]
Twin == [Hooked EXCEPT !.previous = 1]

VertexAddObstacle ==
  \E vertices \in {<<>>, <<V(0, 0)>>, Segment} :
    /\ Len(obstacles) + Len(vertices) <= MaxVertexVertices
    /\ addObstacle(vertices)
VertexAdd ==
  /\ Len(obstacles) < MaxVertexVertices
  /\ \/ \E obstacle \in {Loose, Looped, Hooked, Twin} :
          addObstacleVertex(obstacle)
     \/ \E index \in 0..Len(obstacles) :
          addObstacleVertex(getObstacle(index))
VertexAddAgent ==
  /\ Len(agents) < 1
  /\ addAgentWithParams(V(0, 0), Num(15), 2, Num(2), Num(2), One, One, V(0, 0))
VertexStep ==
  /\ steps < MaxVertexSteps
  /\ doStep
VertexQuery == queryVisibility(V(0, 0), V(2, 2), Zero)

NextVertex ==
  \/ VertexAddObstacle
  \/ VertexAdd
  \/ processObstacles
  \/ VertexAddAgent
  \/ VertexStep
  \/ VertexQuery

SpecVertex == Init /\ [][NextVertex]_vars

\* A step past a caller's vertex numbered like its next: the pass of the
\* obstacle loop went through and left a line.
VertexStepPastTwin ==
  /\ ret.op = "doStep"
  /\ globalTime # Zero
  /\ Len(agents) > 0
  /\ Len(agents[1].obstacleNeighbors) > 0
  /\ Len(agents[1].orcaLines) > 0

\* A step that computeNewVelocity ended: the agent's neighbours are found,
\* nothing is committed.
VertexStepInterrupted ==
  /\ ret.op = "doStep"
  /\ globalTime = Zero
  /\ Len(agents) > 0
  /\ Len(agents[1].obstacleNeighbors) > 0

\* One object is stored at two places of the list.
VertexStoredTwice ==
  /\ ret.op = "addObstacleVertex"
  /\ Len(obstacles) > 1
  /\ Stored(obstacles, Len(obstacles)) \in 1..(Len(obstacles) - 1)

(***************************************************************************)
(* SpecTwice: two segments, one above the other, a caller's vertex below   *)
(* them whose next is the first vertex of the upper segment, so that its   *)
(* edge crosses the line of the lower one, and objects of the list stored  *)
(* once more.  The build splits the crossing edge; where the list holds    *)
(* the caller's vertex twice, the second reference meets the edge as the   *)
(* split left it, the child arrays are not filled as counted, and the      *)
(* build of a child throws on the null left in it.                         *)
(***************************************************************************)
MaxTwiceVertices == 6
Lower == <<V(0, 0), V(2, 0)>>
Upper == <<V(1, 1), V(3, 1)>>
Crossing ==
  [NewObstacle EXCEPT !.point = V(1, -1), !.direction = V(0, 1), !.next = 3,
                      !.previous = 3, !.id = Len(obstacles), !.convex = TRUE]

TwiceAddObstacle ==
  /\ Len(obstacles) < 4
  /\ addObstacle(IF Len(obstacles) = 0 THEN Lower ELSE Upper)
TwiceAdd ==
  /\ Len(obstacles) \in 4..(MaxTwiceVertices - 1)
  /\ \/ addObstacleVertex(Crossing)
     \/ \E index \in 0..(Len(obstacles) - 1) :
          addObstacleVertex(getObstacle(index))
TwiceProcess ==
  /\ ret.op # "processObstacles"
  /\ processObstacles

NextTwice ==
  \/ TwiceAddObstacle
  \/ TwiceAdd
  \/ TwiceProcess

SpecTwice == Init /\ [][NextTwice]_vars

\* The build threw below the root: the split vertex it had pushed is in the
\* list, behind an object stored twice, and the tree is the empty node.
TwiceThrownAfterSplit ==
  /\ ret.op = "processObstacles"
  /\ obstacleTree = NewObstacleTreeNode
  /\ Len(obstacles) = 7
  /\ Stored(obstacles, 6) = 5
  /\ obstacles[7].previous = 5
  /\ obstacles[5].next = 7
  /\ getNumObstacleVertices = 7

\* The build went through on a list that holds an object twice: the object
\* is the splitter of two nodes.
TwiceBuilt ==
  /\ ret.op = "processObstacles"
  /\ obstacleTree # NewObstacleTreeNode
  /\ \E k \in 1..Len(obstacles) : Stored(obstacles, k) \in 1..(k - 1)

(***************************************************************************)
(* SpecCrowd: a crowd large enough for the k-D tree to split and swap.     *)
(* Agents are added in a row from right to left, one of the first ones     *)
(* possibly with its own parameters, the first agent's fields are set, and *)
(* the simulation is stepped; clear() is never called.                     *)
(***************************************************************************)
MaxCrowd == 11
MaxParams == 2
MaxSets == 1
MaxSteps == 1

CrowdAddAgent ==
  /\ Len(agents) < MaxCrowd
  /\ addAgent(V(MaxCrowd - Len(agents), 0))
CrowdAddAgentWithParams ==
  /\ Len(agents) < MaxParams
  /\ addAgentWithParams(V(MaxCrowd - Len(agents), 1), Num(10), 1, Num(5),
                        Num(5), Dec(5, 1), Num(2), V(-1, 0))
CrowdSet ==
  /\ sets < MaxSets
  /\ \/ setAgentMaxNeighbors(0, 1)
     \/ setAgentMaxSpeed(0, Num(2))
     \/ setAgentNeighborDist(0, Num(3))
     \/ setAgentPosition(0, V(0, 2))
     \/ setAgentPrefVelocity(0, V(-1, 0))
     \/ setAgentRadius(0, Dec(5, 1))
     \/ setAgentTimeHorizon(0, Num(1))
     \/ setAgentTimeHorizonObst(0, Num(1))
     \/ setAgentVelocity(0, V(0, 1))
CrowdStep ==
  /\ steps < MaxSteps
  /\ doStep

NextCrowd ==
  \/ SetDefaults
  \/ CrowdAddAgent
  \/ CrowdAddAgentWithParams
  \/ CrowdSet
  \/ CrowdStep

SpecCrowd == Init /\ [][NextCrowd]_vars

(***************************************************************************)
(* SpecStep: up to three agents on two places (so agents can coincide, and *)
(* two can lie at the same distance from a third), the first agent's       *)
(* preferred velocity or neighbour limit set, and a step.                  *)
(***************************************************************************)
MaxStepAgents == 3
StepPositions == {V(0, 0), V(-3, -1)}

StepAddAgent ==
  \E position \in StepPositions :
    /\ Len(agents) < MaxStepAgents
    /\ addAgent(position)
StepPrefVelocity ==
  /\ sets < MaxSets
  /\ setAgentPrefVelocity(0, V(-1, 1))
StepMaxNeighbors ==
  \E maxNeighbors \in 0..1 :
    /\ sets < MaxSets
    /\ setAgentMaxNeighbors(0, maxNeighbors)
Step ==
  /\ steps < MaxSteps
  /\ doStep

NextStep ==
  \/ SetDefaults
  \/ StepAddAgent
  \/ StepPrefVelocity
  \/ StepMaxNeighbors
  \/ Step

SpecStep == Init /\ [][NextStep]_vars

(***************************************************************************)
(* Properties                                                              *)
(***************************************************************************)

\* C1: addAgent(position) called while no default-agent template is set
\* returns -1 and leaves the simulator unchanged: the agents, the obstacles,
\* the template, the global time, the time step and the trees are what they
\* were before the call.
C1_AddAgentWithoutDefaults ==
  [][(ret'.op = "addAgent" /\ defaultAgent = null)
       => (ret'.val = -1 /\ UNCHANGED simState)]_vars

\* addAgent has just been refused in a simulator that holds an agent, obstacle
\* vertices and a clock that was set.
C1_Witness ==
  /\ ret.op = "addAgent"
  /\ ret.val = -1
  /\ Len(agents) > 0
  /\ Len(obstacles) > 0
  /\ globalTime # Zero

\* C2: addObstacle(vertices) with fewer than 2 vertices returns -1, appends
\* no obstacle vertex and changes no existing vertex's id, point, next or
\* previous link.
C2_AddObstacleTooShort ==
  [][(ret'.op = "addObstacle" /\ Len(ret'.arg) < 2)
       => (ret'.val = -1 /\ obstacles' = obstacles)]_vars

\* A one-vertex polygon has just been refused in a simulator that holds
\* obstacle vertices.
C2_Witness ==
  /\ ret.op = "addObstacle"
  /\ Len(ret.arg) = 1
  /\ ret.val = -1
  /\ Len(obstacles) > 0

\* C3: addAgent returns a non-negative id if and only if setAgentDefaults has
\* been called at least once since the most recent clear() or, with no clear(),
\* since construction.
C3_AddAgentNeedsDefaults ==
  ret.op = "addAgent" => (ret.val >= 0 <=> defaultsSet)

\* addAgent has just returned the id of a new agent, in a simulator that
\* holds obstacle vertices.
C3_Witness ==
  /\ ret.op = "addAgent"
  /\ ret.val >= 0
  /\ defaultsSet
  /\ Len(obstacles) > 0

\* C4: with no clear(), the agent at index k of the simulator's list has
\* id k, each successful addAgent / addAgentWithParams returns the agent count
\* before the call and appends one agent, and doStep, whose k-D tree build
\* permutes the tree's array, leaves every agent at its index with its id.
C4_AgentIdsAreIndices ==
  [][ /\ \A k \in 1..Len(agents') : agents'[k].id = k - 1
      /\ (ret'.op \in {"addAgent", "addAgentWithParams"} /\ ret'.val >= 0)
           => /\ ret'.val = Len(agents)
              /\ Len(agents') = Len(agents) + 1
              /\ SubSeq(agents', 1, Len(agents)) = agents
      /\ ret'.op = "doStep"
           => /\ Len(agents') = Len(agents)
              /\ \A k \in 1..Len(agents) :
                   /\ agents'[k].id = agents[k].id
                   /\ agents'[k].radius = agents[k].radius
                   /\ agents'[k].maxSpeed = agents[k].maxSpeed
                   /\ agents'[k].prefVelocity = agents[k].prefVelocity ]_vars

\* doStep has just run on a crowd the k-D tree had to split, and the build
\* has permuted the tree's array.
C4_Witness ==
  /\ ret.op = "doStep"
  /\ Len(agents) > MAX_LEAF_SIZE
  /\ \E k \in 1..Len(kdAgents) : kdAgents[k] # k

\* The vertex at place v of the list was given to addObstacle (it is no split
\* vertex).
IsOriginal(polys, v) ==
  \E k \in 1..Len(polys) :
    v - 1 \in polys[k].first..(polys[k].first + polys[k].n - 1)

\* C5: every obstacle vertex in the simulator's list, split vertices
\* included, has a next and a previous vertex, and v.next.previous = v and
\* v.previous.next = v.
C5_LinksAreMutual ==
  \A v \in 1..Len(obstacles) :
    /\ obstacles[v].next # 0
    /\ obstacles[v].previous # 0
    /\ obstacles[obstacles[v].next].previous = v
    /\ obstacles[obstacles[v].previous].next = v

\* processObstacles has just run and the list holds a split vertex.
C5_Witness ==
  /\ ret.op = "processObstacles"
  /\ \E v \in 1..Len(obstacles) : ~IsOriginal(polygons, v)

\* C6: addObstacle(vertices) with n >= 2 vertices returns f, the vertex count
\* before the call, stores the vertices under the ids f..f+n-1 in input order
\* and links them as one cycle: getNextObstacleVertexNo(f+i) = f+((i+1) mod n),
\* getPrevObstacleVertexNo(f+i) = f+((i-1) mod n), and no earlier vertex links
\* into the new polygon.
C6_AddObstacleCycle ==
  (ret.op = "addObstacle" /\ Len(ret.arg) >= 2) =>
    LET n == Len(ret.arg)
        f == ret.val
    IN /\ f >= 0
       /\ getNumObstacleVertices = f + n
       /\ \A i \in 0..(n - 1) :
            /\ obstacles[f + i + 1].id = f + i
            /\ obstacles[f + i + 1].point = ret.arg[i + 1]
            /\ obstacles[f + i + 1].next # 0
            /\ obstacles[f + i + 1].previous # 0
            /\ getNextObstacleVertexNo(f + i) = f + ((i + 1) % n)
            /\ getPrevObstacleVertexNo(f + i) = f + ((i + n - 1) % n)
       /\ \A v \in 1..f :
            /\ obstacles[v].next <= f
            /\ obstacles[v].previous <= f

\* A triangle has just been added after an earlier polygon.
C6_Witness ==
  /\ ret.op = "addObstacle"
  /\ Len(ret.arg) = 3
  /\ ret.val > 0

\* The first original vertex met when following next from the vertex at
\* place v (0 when the chain ends or does not come back within fuel links).
RECURSIVE NextOriginal(_, _, _, _)
NextOriginal(obs, polys, v, fuel) ==
  IF fuel = 0 \/ obs[v].next = 0 THEN 0
  ELSE IF IsOriginal(polys, obs[v].next) THEN obs[v].next
  ELSE NextOriginal(obs, polys, obs[v].next, fuel - 1)

\* C7: the vertex at index k of the obstacle list has id k; processObstacles
\* only appends vertices and changes neither the id nor the point of a vertex
\* that was there; and following next from an original vertex reaches, past
\* split vertices only, the next original vertex of its polygon in cyclic
\* insertion order.
C7_VertexIdsAndOrder ==
  [][ /\ \A k \in 1..Len(obstacles') : obstacles'[k].id = k - 1
      /\ ret'.op = "processObstacles"
           => /\ Len(obstacles') >= Len(obstacles)
              /\ \A k \in 1..Len(obstacles) :
                   /\ obstacles'[k].id = obstacles[k].id
                   /\ obstacles'[k].point = obstacles[k].point
      /\ \A p \in 1..Len(polygons') :
           \A i \in 0..(polygons'[p].n - 1) :
             NextOriginal(obstacles', polygons', polygons'[p].first + i + 1,
                          Len(obstacles'))
               = polygons'[p].first + ((i + 1) % polygons'[p].n) + 1 ]_vars

\* processObstacles has just run, and a split vertex follows an original
\* vertex in its chain.
C7_Witness ==
  /\ ret.op = "processObstacles"
  /\ \E v \in 1..Len(obstacles) :
       /\ IsOriginal(polygons, v)
       /\ ~IsOriginal(polygons, obstacles[v].next)

\* C8: after doStep, every agent has at most maxNeighbors entries in
\* agentNeighbors, and none when maxNeighbors is 0.
C8_NeighborsWithinLimit ==
  ret.op = "doStep" =>
    \A k \in 1..Len(agents) :
      Len(agents[k].agentNeighbors) <= agents[k].maxNeighbors

\* After a step an agent limited to one neighbour, with two other agents in
\* range, holds one.
C8_Witness ==
  /\ ret.op = "doStep"
  /\ Len(agents) = 3
  /\ \E k \in 1..Len(agents) :
       /\ agents[k].maxNeighbors = 1
       /\ Len(agents[k].agentNeighbors) = 1

\* The order insertAgentNeighbor does keep: no entry of agentNeighbors has a
\* key below the one before it, e[i].key <= e[i+1].key.
C9_NeighborsAscending ==
  ret.op = "doStep" =>
    \A k \in 1..Len(agents) :
      \A i \in 1..(Len(agents[k].agentNeighbors) - 1) :
        FLe(agents[k].agentNeighbors[i].key, agents[k].agentNeighbors[i + 1].key)

\* After a step an agent holds two neighbours at the same squared distance,
\* with equal keys.
C9_Witness ==
  /\ ret.op = "doStep"
  /\ \E k \in 1..Len(agents) :
       /\ Len(agents[k].agentNeighbors) = 2
       /\ agents[k].agentNeighbors[1].key = agents[k].agentNeighbors[2].key
       /\ agents[k].agentNeighbors[1].value # agents[k].agentNeighbors[2].value

\* C9: after doStep the entries of agentNeighbors are strictly ascending by
\* key, e[i].key < e[i+1].key, neighbours at the same distance included.
C9_NeighborsStrictlyAscending ==
  ret.op = "doStep" =>
    \A k \in 1..Len(agents) :
      \A i \in 1..(Len(agents[k].agentNeighbors) - 1) :
        FLt(agents[k].agentNeighbors[i].key, agents[k].agentNeighbors[i + 1].key)

\* C10 as stated: after doStep every agent's velocity is finite and satisfies
\* |velocity| <= maxSpeed + epsilon.
C10_SpeedWithinLimit ==
  ret.op = "doStep" =>
    \A k \in 1..Len(agents) :
      /\ IsFinite(agents[k].velocity.x)
      /\ IsFinite(agents[k].velocity.y)
      /\ FLe(abs(agents[k].velocity), FAdd(agents[k].maxSpeed, RVO_EPSILON))

(***************************************************************************)
(* SpecSolve: up to three agents in a row, each one either at its place in *)
(* the row or at the origin, each with its own velocity, then a step.  The *)
(* outer agents of the row can close in on the middle one from both sides, *)
(* which leaves the middle agent no velocity that all of its lines permit. *)
(***************************************************************************)
MaxSolveAgents == 3
SolveVelocities == {V(0, 0), V(2, 0), V(-2, 0)}
SolvePositions == {V(3 * Len(agents) - 3, 0), V(0, 0)}

SolveAddAgent ==
  \E position \in SolvePositions, velocity \in SolveVelocities :
    /\ Len(agents) < MaxSolveAgents
    /\ addAgentWithParams(position, Num(15), 2, Num(2), Num(2), One, Num(2),
                          velocity)
SolveStep ==
  /\ steps < MaxSteps
  /\ doStep

NextSolve ==
  \/ SolveAddAgent
  \/ SolveStep

SpecSolve == Init /\ [][NextSolve]_vars

\* No two agents of the list overlap: every centre distance is greater than
\* the sum of the two radii.
NoOverlap(ags) ==
  \A i \in 1..Len(ags), j \in 1..Len(ags) :
    i # j => FGt(absSq(subtract(ags[i].position, ags[j].position)),
                 sqr(FAdd(ags[i].radius, ags[j].radius)))

\* linearProgram2 found a velocity on the agent's lines (it returned the
\* number of lines).
Feasible(a) ==
  linearProgram2(a.orcaLines, a.maxSpeed, a.prefVelocity, FALSE).lineFail
    = Len(a.orcaLines)

\* What the source keeps in a tick in which no two agents overlap: every
\* agent for which linearProgram2 succeeds on its lines ends with a new
\* velocity on the side of each of its ORCA lines that the source tests,
\* det(L.direction, L.point - newVelocity) <= epsilon.
C11_HalfPlanesWhereFeasible ==
  [][(ret'.op = "doStep" /\ NoOverlap(agents)) =>
       \A i \in 1..Len(agents') :
         Feasible(agents'[i]) =>
           \A l \in 1..Len(agents'[i].orcaLines) :
             FLe(det(agents'[i].orcaLines[l].direction,
                     subtract(agents'[i].orcaLines[l].point,
                              agents'[i].newVelocity)),
                 RVO_EPSILON)]_vars

\* A step of three agents apart from each other left one of them with two
\* lines, linearProgram2 succeeded on them, and the new velocity is not the
\* preferred one: a line has moved it.
C11_Witness ==
  /\ ret.op = "doStep"
  /\ NoOverlap(agents)
  /\ \E i \in 1..Len(agents) :
       /\ Len(agents[i].orcaLines) = 2
       /\ Feasible(agents[i])
       /\ agents[i].newVelocity # agents[i].prefVelocity
       /\ agents[i].velocity = agents[i].newVelocity

\* C11: in a tick in which no two agents overlap, for every agent and every
\* ORCA line L in its orcaLines after computeNewVelocity,
\* det(L.direction, newVelocity - L.point) <= epsilon.
C11_HalfPlanesAsStated ==
  [][(ret'.op = "doStep" /\ NoOverlap(agents)) =>
       \A i \in 1..Len(agents') :
         \A l \in 1..Len(agents'[i].orcaLines) :
           FLe(det(agents'[i].orcaLines[l].direction,
                   subtract(agents'[i].newVelocity,
                            agents'[i].orcaLines[l].point)),
               RVO_EPSILON)]_vars

\* The side the source tests, for every agent, linearProgram2 having
\* succeeded or not.
C11_HalfPlanesAlways ==
  [][(ret'.op = "doStep" /\ NoOverlap(agents)) =>
       \A i \in 1..Len(agents') :
         \A l \in 1..Len(agents'[i].orcaLines) :
           FLe(det(agents'[i].orcaLines[l].direction,
                   subtract(agents'[i].orcaLines[l].point,
                            agents'[i].newVelocity)),
               RVO_EPSILON)]_vars

(***************************************************************************)
(* SpecRuns: an observed simulator is driven through runs that clear()     *)
(* separates.  In each run a caller sets the defaults, adds agents at one  *)
(* of two positions, may set the first agent's preferred velocity, and     *)
(* steps; after the last step of a run only clear() follows.               *)
(***************************************************************************)
MaxRunAgents == 2
MaxRuns == 2

RunSetDefaults ==
  /\ steps = 0
  /\ defaultAgent = null
  /\ SetDefaults
RunAddAgent ==
  \E position \in StepPositions :
    /\ steps = 0
    /\ defaultAgent # null
    /\ Len(agents) < MaxRunAgents
    /\ addAgent(position)
RunPrefVelocity ==
  /\ steps = 0
  /\ sets < MaxSets
  /\ setAgentPrefVelocity(0, V(-1, 1))
RunStep ==
  /\ steps < MaxSteps
  /\ Len(agents) > 0
  /\ doStep
RunClear ==
  /\ observed.run + 1 < MaxRuns
  /\ clear

NextRuns ==
  \/ RunSetDefaults
  \/ RunAddAgent
  \/ RunPrefVelocity
  \/ RunStep
  \/ RunClear

SpecRuns == InitObserved /\ [][NextRuns]_vars

\* C12: two runs that make the same calls with the same arguments, each
\* from construction or from clear(), leave the same agents (positions,
\* velocities, neighbour lists) and the same global time after every
\* doStep().
C12_RunsAgree ==
  \A p \in observed.seen, q \in observed.seen :
    p.calls = q.calls => (p.agents = q.agents /\ p.globalTime = q.globalTime)

\* A run before clear() and a run after it made the same calls up to a
\* doStep of two agents that are neighbours of each other, one of them
\* with a preferred velocity.
C12_Witness ==
  \E p \in observed.seen, q \in observed.seen :
    /\ p.run # q.run
    /\ p.calls = q.calls
    /\ Len(p.agents) = 2
    /\ Len(p.agents[1].agentNeighbors) = 1
    /\ p.agents[1].velocity # V(0, 0)

(***************************************************************************)
(* SpecSight: polygons are added and processed, then a caller asks whether *)
(* two points see each other; clear() starts over.  The square is the      *)
(* clockwise one of the documentation, the triangle is counterclockwise    *)
(* and lies to the right of the square.                                    *)
(***************************************************************************)
MaxSightVertices == 7
Square == <<V(-5, -5), V(-5, 5), V(5, 5), V(5, -5)>>
FarTriangle == <<V(20, -5), V(30, -5), V(20, 5)>>
SightPoints == {V(-10, 0), V(1, 0), V(10, 0), V(22, 0), V(-10, 10), V(10, 10)}

SightAddObstacle ==
  \E vertices \in {Square, FarTriangle} :
    /\ Len(obstacles) + Len(vertices) <= MaxSightVertices
    /\ addObstacle(vertices)
SightQuery ==
  \E point1 \in SightPoints, point2 \in SightPoints :
    queryVisibility(point1, point2, Zero)

NextSight ==
  \/ SightAddObstacle
  \/ processObstacles
  \/ SightQuery
  \/ clear

SpecSight == Init /\ [][NextSight]_vars

\* The obstacles the nodes of a BSP hold.
RECURSIVE TreeObstacles(_)
TreeObstacles(node) ==
  IF node = null THEN {}
  ELSE {node[1]} \cup TreeObstacles(node[2]) \cup TreeObstacles(node[3])

\* processObstacles() has run since the last polygon was added: every
\* vertex is the obstacle of a node.
TreeCurrent == TreeObstacles(obstacleTree) = 1..Len(obstacles)

\* The edge from a to b strictly crosses the segment pq: p and q lie
\* strictly on different sides of the edge's line, a and b strictly on
\* different sides of the segment's line.
StrictlyCrosses(a, b, p, q) ==
  /\ FLt(FMul(leftOf(a, b, p), leftOf(a, b, q)), Zero)
  /\ FLt(FMul(leftOf(p, q, a), leftOf(p, q, b)), Zero)

\* An edge of a polygon addObstacle stored strictly crosses the segment pq.
EdgeCrosses(p, q) ==
  \E k \in 1..Len(polygons) :
    \E i \in 0..(polygons[k].n - 1) :
      StrictlyCrosses(obstacles[polygons[k].first + i + 1].point,
                      obstacles[polygons[k].first + ((i + 1) % polygons[k].n) + 1].point,
                      p, q)

\* C13: after processObstacles(), queryVisibility(p, q, 0) returns true if
\* and only if no obstacle edge strictly crosses the segment pq.
C13_VisibleIffNoCrossing ==
  (ret.op = "queryVisibility" /\ TreeCurrent) =>
    (ret.val <=> ~EdgeCrosses(ret.arg[1], ret.arg[2]))

\* The half of C13 the source keeps: where no edge strictly crosses the
\* segment, the answer is true.
C13_VisibleWhereNoCrossing ==
  (ret.op = "queryVisibility" /\ TreeCurrent /\ ~EdgeCrosses(ret.arg[1], ret.arg[2]))
    => ret.val

(***************************************************************************)
(* SpecClock: a caller sets the defaults, adds up to two agents (next to   *)
(* each other or out of each other's range), gives the first one a         *)
(* preferred velocity, sets the tick length and the clock, steps a few     *)
(* times and clears.                                                       *)
(***************************************************************************)
MaxClockAgents == 2
MaxTicks == 3
ClockPositions == {V(0, 0), V(0, 3), V(0, 40)}

ClockAddAgent ==
  \E position \in ClockPositions :
    /\ steps = 0
    /\ Len(agents) < MaxClockAgents
    /\ addAgent(position)
ClockPrefVelocity ==
  /\ steps = 0
  /\ sets < MaxSets
  /\ setAgentPrefVelocity(0, V(1, 0))
ClockTimeStep ==
  /\ steps = 0
  /\ timeStep # One
  /\ setTimeStep(One)
ClockGlobalTime ==
  /\ steps = 0
  /\ globalTime = Zero
  /\ SetGlobalTime
ClockStep ==
  /\ steps < MaxTicks
  /\ doStep

NextClock ==
  \/ SetDefaults
  \/ ClockAddAgent
  \/ ClockPrefVelocity
  \/ ClockTimeStep
  \/ ClockGlobalTime
  \/ ClockStep
  \/ clear

SpecClock == Init /\ [][NextClock]_vars

\* The root node of the tree is the bounding box of the positions of ags.
RootBoxOf(tree, ags) ==
  /\ \A k \in 1..Len(ags) :
       /\ FLe(tree[1].minX, ags[k].position.x)
       /\ FLe(ags[k].position.x, tree[1].maxX)
       /\ FLe(tree[1].minY, ags[k].position.y)
       /\ FLe(ags[k].position.y, tree[1].maxY)
  /\ \E k \in 1..Len(ags) : tree[1].minX = ags[k].position.x
  /\ \E k \in 1..Len(ags) : tree[1].maxX = ags[k].position.x
  /\ \E k \in 1..Len(ags) : tree[1].minY = ags[k].position.y
  /\ \E k \in 1..Len(ags) : tree[1].maxY = ags[k].position.y

\* C14: a doStep() leaves the agent tree built from the positions the tick
\* began with, neighbour lists measured on those positions, every agent
\* committed (velocity = newVelocity, position moved by it for one tick),
\* and the global time increased by timeStep exactly once; it returns the
\* new global time, which is what getGlobalTime() says afterwards; the
\* global time is 0 after construction and after clear().
C14_StepOrderAndClock ==
  /\ [](ret.op \in {"new", "clear"} => getGlobalTime = Zero)
  /\ [](ret.op = "doStep" => ret.val = getGlobalTime)
  /\ [][ret'.op = "doStep" =>
          /\ globalTime' = FAdd(globalTime, timeStep)
          /\ timeStep' = timeStep
          /\ Len(kdAgents') = Len(agents)
          /\ Len(agents) > 0 => RootBoxOf(agentTree', agents)
          /\ Len(agents') = Len(agents)
          /\ \A i \in 1..Len(agents) :
               /\ \A k \in 1..Len(agents'[i].agentNeighbors) :
                    agents'[i].agentNeighbors[k].key
                      = absSq(subtract(agents[i].position,
                                       agents[agents'[i].agentNeighbors[k].value].position))
               /\ agents'[i].velocity = agents'[i].newVelocity
               /\ agents'[i].position
                    = add(agents[i].position,
                          multiply(agents'[i].newVelocity, timeStep))]_vars

\* The clock was set to 5 and the tick length to 1, and the second step of
\* two neighbouring agents, the first of them moving, returned 7.
C14_Witness ==
  /\ ret.op = "doStep"
  /\ steps = 2
  /\ ret.val = Num(7)
  /\ getGlobalTime = Num(7)
  /\ Len(agents) = 2
  /\ Len(agents[1].agentNeighbors) = 1
  /\ agents[1].position # V(0, 0)
  /\ agents[1].velocity # V(0, 0)

\* The agent at place i after computeNeighbors and computeNewVelocity on the
\* list ags alone, whatever the other agents of the tick have computed.
ComputedAlone(ags, obs, kd, tree, dt, i) ==
  WithNewVelocity([ags EXCEPT ![i] = computeNeighbors(ags, obs, kd, tree, i)],
                  obs, dt, i)[i]

\* What doStep commits for the agent at place i is what alone computed from
\* the list ags of the beginning of the tick.
CommitsPreTick(before, after, alone, dt) ==
  /\ after.agentNeighbors = alone.agentNeighbors
  /\ after.obstacleNeighbors = alone.obstacleNeighbors
  /\ after.orcaLines = alone.orcaLines
  /\ after.newVelocity = alone.newVelocity
  /\ after.velocity = alone.newVelocity
  /\ after.position = add(before.position, multiply(alone.newVelocity, dt))

\* C15: within one doStep() every agent's neighbours, lines and new
\* velocity are those computed from the positions and velocities that held
\* before the tick, for each agent by itself, so the committed positions
\* and velocities do not depend on the order of the compute loop.
C15_ComputedFromPreTick ==
  [][ret'.op = "doStep" =>
       \A i \in 1..Len(agents) :
         CommitsPreTick(agents[i], agents'[i],
                        ComputedAlone(agents, obstacles,
                                      [agents |-> kdAgents', tree |-> agentTree'],
                                      obstacleTree, timeStep, i),
                        timeStep)]_vars

\* The first tick of two neighbouring agents: the first one in the loop got
\* a velocity it did not have before, the second one has a line for it.
C15_Witness ==
  /\ ret.op = "doStep"
  /\ steps = 1
  /\ Len(agents) = 2
  /\ agents[1].velocity # V(0, 0)
  /\ Len(agents[2].orcaLines) = 1
  /\ agents[2].agentNeighbors[1].value = 1

\* C16: an agent that a tick leaves without agent neighbours and without
\* obstacle neighbours, and whose preferred velocity is within its maximum
\* speed, gets exactly its preferred velocity and moves by it for one tick;
\* so a single agent started at (0, 0) with preferred velocity (1, 0),
\* maxSpeed 1 and timeStep 1 is at (N, 0) after N ticks.
C16_FreeAgentFollowsPreference ==
  /\ [][ret'.op = "doStep" =>
          \A i \in 1..Len(agents) :
            ( /\ agents'[i].agentNeighbors = <<>>
              /\ agents'[i].obstacleNeighbors = <<>>
              /\ FLe(abs(agents[i].prefVelocity), agents[i].maxSpeed) )
            => /\ agents'[i].velocity = agents[i].prefVelocity
               /\ agents'[i].position
                    = add(agents[i].position,
                          multiply(agents[i].prefVelocity, timeStep))]_vars
  /\ []( ( /\ ret.op = "doStep"
           /\ Len(agents) = 1
           /\ obstacles = <<>>
           /\ agents[1].prefVelocity = V(1, 0)
           /\ agents[1].maxSpeed = One
           /\ timeStep = One
           /\ agents[1].position.y = Zero )
         => agents[1].position = V(steps, 0) )

\* A single agent with preferred velocity (1, 0) and tick length 1 is at
\* (3, 0) after its third tick.
C16_Witness ==
  /\ ret.op = "doStep"
  /\ steps = 3
  /\ Len(agents) = 1
  /\ agents[1].agentNeighbors = <<>>
  /\ agents[1].prefVelocity = V(1, 0)
  /\ timeStep = One
  /\ agents[1].velocity = V(1, 0)
  /\ agents[1].position = V(3, 0)

(***************************************************************************)
(* SpecReset: an observed simulator is filled step by step (defaults, an   *)
(* agent inside the square, the square, its BSP, a tick length of 1),      *)
(* stepped at any point of that, asked for visibility after the BSP is     *)
(* built and after clear(), and cleared at any point.                      *)
(***************************************************************************)
ResetPoints == {V(-10, 0), V(10, 0)}

ResetSetDefaults ==
  /\ defaultAgent = null
  /\ SetDefaults
ResetAddAgent ==
  /\ defaultAgent # null
  /\ agents = <<>>
  /\ addAgent(V(3, 0))
ResetAddObstacle ==
  /\ Len(agents) = 1
  /\ obstacles = <<>>
  /\ addObstacle(<<V(-5, -5), V(-5, 5), V(5, 5), V(5, -5)>>)
ResetProcess ==
  /\ obstacles # <<>>
  /\ obstacleTree = null
  /\ processObstacles
ResetTimeStep ==
  /\ obstacleTree # null
  /\ timeStep # One
  /\ setTimeStep(One)
ResetStep ==
  /\ steps < MaxSteps
  /\ doStep
ResetQuery ==
  \E point1 \in ResetPoints, point2 \in ResetPoints :
    /\ ret.op \in {"clear", "processObstacles"}
    /\ queryVisibility(point1, point2, Zero)
ResetClear ==
  /\ observed.run + 1 < MaxRuns
  /\ clear

NextReset ==
  \/ ResetSetDefaults
  \/ ResetAddAgent
  \/ ResetAddObstacle
  \/ ResetProcess
  \/ ResetTimeStep
  \/ ResetStep
  \/ ResetQuery
  \/ ResetClear

SpecReset == InitObserved /\ [][NextReset]_vars

\* C17: after clear() there are no agents and no obstacle vertices, the
\* default-agent template is unset, the obstacle BSP and the agent tree
\* are empty, so that queryVisibility is true for every input, the global
\* time is 0 and the time step is 0.1; a doStep() that follows changes
\* nothing but the global time.
C17_ClearResets ==
  /\ [](ret.op = "clear" =>
          /\ getNumAgents = 0
          /\ getNumObstacleVertices = 0
          /\ defaultAgent = null
          /\ obstacleTree = null
          /\ kdAgents = <<>>
          /\ agentTree = <<>>
          /\ getGlobalTime = Zero
          /\ timeStep = Dec(1, 1)
          /\ \A point1 \in ResetPoints, point2 \in ResetPoints :
               queryVisibilityRecursive(obstacles, point1, point2, Zero,
                                        obstacleTree))
  /\ [][(ret.op = "clear" /\ ret'.op = "queryVisibility") => ret'.val]_vars
  /\ [][(ret.op = "clear" /\ ret'.op = "doStep") =>
          /\ globalTime' = Dec(1, 1)
          /\ UNCHANGED <<agents, obstacles, defaultAgent, timeStep, kdAgents,
                         agentTree, obstacleTree>>]_vars

\* Before clear() an agent next to a processed edge was stepped with a tick
\* length of 1; the only call since clear() is a doStep(), which left no
\* agent and the global time 0.1.
C17_Witness ==
  /\ ret.op = "doStep"
  /\ observed.run = 1
  /\ Len(observed.calls) = 1
  /\ agents = <<>>
  /\ getGlobalTime = Dec(1, 1)
  /\ \E p \in observed.seen :
       /\ p.run = 0
       /\ Len(p.agents) = 1
       /\ p.agents[1].obstacleNeighbors # <<>>
       /\ p.globalTime = One

(***************************************************************************)
(* SpecLate: polygons are added before and after processObstacles(), an    *)
(* agent stands inside the square, next to its right edge, and the caller  *)
(* steps and asks for visibility at any time; clear() starts over.         *)
(***************************************************************************)
LatePoints == {V(-10, 0), V(1, 0), V(22, 0)}

LateAddAgent ==
  /\ Len(agents) < MaxAgents
  /\ addAgentWithParams(V(3, 0), Num(15), 2, Num(2), Num(2), One, One, V(0, 0))
LateAddObstacle ==
  \E vertices \in {Square, FarTriangle} :
    /\ Len(obstacles) + Len(vertices) <= MaxSightVertices
    /\ addObstacle(vertices)
LateQuery ==
  \E point1 \in LatePoints, point2 \in LatePoints :
    queryVisibility(point1, point2, Zero)
LateStep ==
  /\ steps < MaxSteps
  /\ doStep

NextLate ==
  \/ LateAddAgent
  \/ LateAddObstacle
  \/ processObstacles
  \/ LateQuery
  \/ LateStep
  \/ clear

SpecLate == Init /\ [][NextLate]_vars

\* The vertices the BSP was built from: those its nodes hold, which are the
\* first ones of the list.
Processed == SubSeq(obstacles, 1, Cardinality(TreeObstacles(obstacleTree)))

\* C18: obstacles count only through the BSP of the last processObstacles().
\* While there is no BSP, queryVisibility is true for every input and a
\* doStep() leaves every agent without obstacle neighbours; with a BSP,
\* queryVisibility and doStep() give what they give on the vertices the BSP
\* was built from, whatever polygons were added since.
C18_OnlyProcessedObstaclesCount ==
  /\ [](TreeObstacles(obstacleTree) = 1..Len(Processed))
  /\ []((ret.op = "queryVisibility" /\ obstacleTree = null) => ret.val)
  /\ []((ret.op = "doStep" /\ obstacleTree = null) =>
          \A i \in 1..Len(agents) : agents[i].obstacleNeighbors = <<>>)
  /\ [][ret'.op = "queryVisibility" =>
          ret'.val = queryVisibilityRecursive(Processed, ret'.arg[1],
                                              ret'.arg[2], ret'.arg[3],
                                              obstacleTree)]_vars
  /\ [][ret'.op = "doStep" =>
          agents' = UpdateLoop(ComputeLoop(agents, Processed,
                                           [agents |-> kdAgents',
                                            tree |-> agentTree'],
                                           obstacleTree, timeStep, 1),
                               timeStep, 1)]_vars

\* The triangle was processed and the square added afterwards around the
\* agent: the step gave the agent no obstacle neighbour.
C18_Witness ==
  /\ ret.op = "doStep"
  /\ obstacleTree # null
  /\ Len(Processed) = Len(FarTriangle)
  /\ Len(obstacles) = Len(FarTriangle) + Len(Square)
  /\ Len(agents) = 1
  /\ agents[1].obstacleNeighbors = <<>>

(***************************************************************************)
(* SpecPass: two agents made from the defaults of the head-on scenario     *)
(* (neighborDist 15, maxNeighbors 10, timeHorizon 10, timeHorizonObst 10,  *)
(* radius 2, maxSpeed 2, velocity (0,0)), the first at (-5,0) heading      *)
(* right, the second at (5,0) or (5,1) heading left, no obstacles, stepped *)
(* with a tick of 0.25 or of the initial 0.1.  The observer notes the      *)
(* calls, so that a state tells how it was set up.                         *)
(***************************************************************************)
MaxPassTicks == 20
PassStarts == {V(5, 0), V(5, 1)}

PassSetDefaults ==
  /\ defaultAgent = null
  /\ setAgentDefaults(Num(15), 10, Num(10), Num(10), Num(2), Num(2), V(0, 0))
PassTimeStep ==
  /\ steps = 0
  /\ timeStep # Dec(25, 2)
  /\ setTimeStep(Dec(25, 2))
PassAddAgent ==
  \E position \in PassStarts \cup {V(-5, 0)} :
    /\ steps = 0
    /\ defaultAgent # null
    /\ Len(agents) < 2
    /\ (Len(agents) = 0) = (position = V(-5, 0))
    /\ addAgent(position)
PassPrefVelocity ==
  \E agentNo \in {0, 1} :
    /\ steps = 0
    /\ agentNo < Len(agents)
    /\ Agent(agentNo).prefVelocity = V(0, 0)
    /\ setAgentPrefVelocity(agentNo, IF agentNo = 0 THEN V(2, 0) ELSE V(-2, 0))
PassStep ==
  /\ steps < MaxPassTicks
  /\ Len(agents) = 2
  /\ \A agentNo \in {0, 1} : Agent(agentNo).prefVelocity # V(0, 0)
  /\ doStep

NextPass ==
  \/ PassSetDefaults
  \/ PassTimeStep
  \/ PassAddAgent
  \/ PassPrefVelocity
  \/ PassStep

SpecPass == InitObserved /\ [][NextPass]_vars

\* The positions the agents were added at, in the order of the calls.
AddedAt == SelectSeq(observed.calls, LAMBDA c : c.op = "addAgent")

\* The head-on scenario after at least one tick.
HeadOn ==
  /\ steps >= 1
  /\ obstacles = <<>>
  /\ timeStep = Dec(25, 2)
  /\ Len(agents) = 2
  /\ Len(AddedAt) = 2
  /\ AddedAt[1].arg = <<V(-5, 0)>>
  /\ AddedAt[2].arg = <<V(5, 0)>>
  /\ Agent(0).prefVelocity = V(2, 0)
  /\ Agent(1).prefVelocity = V(-2, 0)
  /\ \A agentNo \in {0, 1} :
       /\ Agent(agentNo).neighborDist = Num(15)
       /\ Agent(agentNo).maxNeighbors = 10
       /\ Agent(agentNo).timeHorizon = Num(10)
       /\ Agent(agentNo).timeHorizonObst = Num(10)
       /\ Agent(agentNo).radius = Num(2)
       /\ Agent(agentNo).maxSpeed = Num(2)

\* The two agents are at least the sum of their radii apart, less epsilon.
Apart ==
  FGe(abs(subtract(Agent(0).position, Agent(1).position)),
      FSub(FAdd(Agent(0).radius, Agent(1).radius), RVO_EPSILON))

\* C19: in the head-on scenario the agents stay apart at every one of the 20
\* ticks, and after the 20 ticks they have passed each other: agent 0 is at
\* x > 0 and agent 1 at x < 0.
C19_HeadOnPass ==
  HeadOn =>
    /\ Apart
    /\ steps = MaxPassTicks =>
         /\ FGt(Agent(0).position.x, Zero)
         /\ FLt(Agent(1).position.x, Zero)

\* What the scenario gives: the agents stay apart and mirror each other, and
\* each one slows down on its own side: after the 20 ticks agent 0 is still
\* left of -3 and agent 1 right of 3.
C19_HeadOnStall ==
  HeadOn =>
    /\ Apart
    /\ Agent(0).position = negate(Agent(1).position)
    /\ Agent(0).position.y = Zero
    /\ steps = MaxPassTicks =>
         /\ FLt(Agent(0).position.x, Num(-3))
         /\ FGt(Agent(1).position.x, Num(3))

\* The 20 ticks of the head-on scenario were made.
C19_Stalled ==
  /\ HeadOn
  /\ steps = MaxPassTicks
  /\ ret.op = "doStep"

(***************************************************************************)
(* SpecMany: the shipped test and its crowd.  The defaults are those of    *)
(* test.ts, every agent is added at (0,0), the second one also at (10,0)   *)
(* as in the test, and has its preferred velocity set with that of the    *)
(* first; otherwise agents join the crowd at (0,0) until there are more    *)
(* than a leaf of the k-D tree holds.  The square of the test is added     *)
(* around (0,0), and processed, before the agents; doStep() is called at   *)
(* any time: with no agent, with all agents in one place, with and without *)
(* the BSP.                                                                *)
(***************************************************************************)
MaxManyAgents == 12
MaxManySteps == 2
MaxTestSteps == 10

ManySetDefaults ==
  /\ defaultAgent = null
  /\ setAgentDefaults(Num(15), 10, Num(10), Num(10), Num(2), Num(2), V(0, 0))
ManyAddAgent ==
  \E position \in {V(0, 0), V(10, 0)} :
    /\ defaultAgent # null
    /\ Len(agents) < MaxManyAgents
    /\ \A i \in 1..Len(agents) : agents[i].position = V(0, 0)
    /\ position = V(10, 0) => Len(agents) = 1 /\ steps = 0
    /\ addAgent(position)
ManyPrefVelocity ==
  \E agentNo \in {0, 1} :
    /\ steps = 0
    /\ Len(agents) = 2
    /\ Agent(1).position = V(10, 0)
    /\ Agent(agentNo).prefVelocity = V(0, 0)
    /\ setAgentPrefVelocity(agentNo, IF agentNo = 0 THEN V(1, 0) ELSE V(-1, 0))
ManyAddObstacle ==
  /\ obstacles = <<>>
  /\ agents = <<>>
  /\ addObstacle(Square)
ManyProcess ==
  /\ obstacles # <<>>
  /\ obstacleTree = null
  /\ agents = <<>>
  /\ processObstacles
ManyStep ==
  /\ steps < MaxManySteps \/ (Len(agents) = 2 /\ steps < MaxTestSteps)
  /\ doStep

NextMany ==
  \/ ManySetDefaults
  \/ ManyAddAgent
  \/ ManyPrefVelocity
  \/ ManyAddObstacle
  \/ ManyProcess
  \/ ManyStep

SpecMany == Init /\ [][NextMany]_vars

\* The agents of the tree's array from begin up to end are all in one place.
Coincide(ags, kdA, begin, end) ==
  \A i \in (begin + 1)..end : ags[kdA[i]].position = ags[kdA[begin + 1]].position

\* The recursion of the build below node came to an end: a node of more
\* agents than a leaf holds has two children, next to each other in the
\* array, neither of them empty, that share its agents, the left one with
\* one agent where all agents of the node are in one place.
RECURSIVE NodeSound(_, _, _, _)
Children(tree, kdA, ags, node, n, l, r) ==
  /\ n.left = node + 1
  /\ n.right = node + 2 * (l.end - l.begin)
  /\ l.begin = n.begin
  /\ l.begin < l.end
  /\ l.end = r.begin
  /\ r.begin < r.end
  /\ r.end = n.end
  /\ Coincide(ags, kdA, n.begin, n.end) => l.end - l.begin = 1
  /\ NodeSound(tree, kdA, ags, n.left)
  /\ NodeSound(tree, kdA, ags, n.right)
NodeSound(tree, kdA, ags, node) ==
  /\ node < Len(tree)
  /\ tree[node + 1].begin < tree[node + 1].end
  /\ tree[node + 1].end - tree[node + 1].begin > MAX_LEAF_SIZE =>
       /\ tree[node + 1].left < Len(tree)
       /\ tree[node + 1].right < Len(tree)
       /\ Children(tree, kdA, ags, node, tree[node + 1],
                   tree[tree[node + 1].left + 1], tree[tree[node + 1].right + 1])

\* What a doStep() called now computes: the tree it builds, the agents it
\* commits and the global time it returns.
Tick ==
  LET kd == buildAgentTree([agents |-> kdAgents, tree |-> agentTree], agents)
  IN [ kd |-> kd,
       agents |-> UpdateLoop(ComputeLoop(agents, obstacles, kd, obstacleTree,
                                         timeStep, 1),
                             timeStep, 1),
       globalTime |-> FAdd(globalTime, timeStep) ]

\* The tick t has an end: its k-D tree holds every agent once under a root
\* whose recursion came to an end, and it commits as many agents as there are.
TickEnds(t) ==
  /\ Len(t.agents) = Len(agents)
  /\ \A i \in 1..Len(agents) : t.agents[i].id = i - 1
  /\ Len(t.kd.agents) = Len(agents)
  /\ {t.kd.agents[i] : i \in 1..Len(agents)} = 1..Len(agents)
  /\ Len(agents) > 0 =>
       /\ t.kd.tree[1].begin = 0
       /\ t.kd.tree[1].end = Len(agents)
       /\ NodeSound(t.kd.tree, t.kd.agents, agents, 0)

\* The step left the tick t: it is counted, the new global time is returned,
\* the agents and the tree are those of t.
TickLeft(t) ==
  /\ steps' = steps + 1
  /\ ret'.val = t.globalTime
  /\ getGlobalTime' = t.globalTime
  /\ agents' = t.agents
  /\ kdAgents' = t.kd.agents
  /\ agentTree' = t.kd.tree

\* C20: every doStep() returns.  In every state, with no agent, with one,
\* with more agents in one place than a leaf holds, with or without the BSP,
\* with the agents inside the square, the tick a doStep() would make has an
\* end; and a doStep() that was called has left that tick.
C20_EveryStepReturns ==
  /\ [](TickEnds(Tick))
  /\ [][ret'.op = "doStep" => TickLeft(Tick)]_vars

\* A second tick of twelve agents in one place inside the processed square:
\* the root was split into one agent and eleven, and the eleven once more.
C20_Witness ==
  /\ ret.op = "doStep"
  /\ steps = MaxManySteps
  /\ Len(agents) = MaxManyAgents
  /\ Coincide(agents, kdAgents, 0, Len(agents))
  /\ obstacleTree # null
  /\ \A i \in 1..Len(agents) : agents[i].obstacleNeighbors # <<>>
  /\ agentTree[1].right = 2
  /\ agentTree[3].end - agentTree[3].begin > MAX_LEAF_SIZE
  /\ agentTree[3].right = 4

(***************************************************************************)
(* SpecRest: two agents made from the defaults of the scenarios, the first *)
(* at (0,0), the second overlapping it at (3,0), near it at (4,1) or away  *)
(* from it at (10,0), each given a velocity with setAgentVelocity() or     *)
(* left at rest, no preferred velocity ever set, stepped with a tick of    *)
(* 0.25 or of the initial 0.1.                                             *)
(***************************************************************************)
MaxRestTicks == 3
RestStarts == {V(3, 0), V(4, 1), V(10, 0)}
RestVelocities == {V(-2, -2), V(2, 0)}

RestSetDefaults ==
  /\ defaultAgent = null
  /\ setAgentDefaults(Num(15), 10, Num(10), Num(10), Num(2), Num(2), V(0, 0))
RestTimeStep ==
  /\ steps = 0
  /\ timeStep # Dec(25, 2)
  /\ setTimeStep(Dec(25, 2))
RestAddAgent ==
  \E position \in RestStarts \cup {V(0, 0)} :
    /\ steps = 0
    /\ defaultAgent # null
    /\ Len(agents) < 2
    /\ (Len(agents) = 0) = (position = V(0, 0))
    /\ addAgent(position)
RestVelocity ==
  \E agentNo \in {0, 1}, velocity \in RestVelocities :
    /\ steps = 0
    /\ agentNo < Len(agents)
    /\ Agent(agentNo).velocity = V(0, 0)
    /\ setAgentVelocity(agentNo, velocity)
RestStep ==
  /\ steps < MaxRestTicks
  /\ Len(agents) = 2
  /\ doStep

NextRest ==
  \/ RestSetDefaults
  \/ RestTimeStep
  \/ RestAddAgent
  \/ RestVelocity
  \/ RestStep

SpecRest == Init /\ [][NextRest]_vars

\* Every agent of the list prefers to stand still / stands still.
NoPreference(ags) == \A i \in 1..Len(ags) : ags[i].prefVelocity = V(0, 0)
AtRest(ags) == \A i \in 1..Len(ags) : ags[i].velocity = V(0, 0)
SamePositions(before, after) ==
  /\ Len(after) = Len(before)
  /\ \A i \in 1..Len(before) : after[i].position = before[i].position

\* No two agents of the list are closer than the sum of their radii.
NoneOverlap(ags) ==
  \A i, j \in 1..Len(ags) :
    i # j => FGe(absSq(subtract(ags[j].position, ags[i].position)),
                 sqr(FAdd(ags[i].radius, ags[j].radius)))

\* C21: with every preferred velocity zero, the second of two consecutive
\* doStep() calls leaves every velocity zero, whatever the velocities and
\* positions were, and a doStep() made with every velocity zero leaves every
\* position unchanged.
C21_ZeroPreferenceSettles ==
  [][ret'.op = "doStep" /\ NoPreference(agents) =>
       /\ ret.op = "doStep" => AtRest(agents')
       /\ AtRest(agents) => SamePositions(agents, agents')]_vars

\* What the code gives: agents at rest that prefer to stand still and do not
\* overlap are left where they are, at rest.
C21_ApartAtRestStays ==
  [][ret'.op = "doStep" /\ NoPreference(agents) /\ AtRest(agents)
       /\ NoneOverlap(agents) =>
       AtRest(agents') /\ SamePositions(agents, agents')]_vars

\* Agents at rest that overlap were moved by a tick, and agents that were
\* moving are still moving after a second tick.
C21_PushedApart ==
  /\ ret.op = "doStep"
  /\ steps = 1
  /\ sets = 0
  /\ NoPreference(agents)
  /\ ~AtRest(agents)
  /\ Agent(0).position # V(0, 0)
C21_StillMoving ==
  /\ ret.op = "doStep"
  /\ steps = 2
  /\ NoPreference(agents)
  /\ NoneOverlap(agents)
  /\ ~AtRest(agents)

(***************************************************************************)
(* SpecBsp: polygons are added and processed, in any order and more than   *)
(* once.  The segment's line crosses the triangle, the steep segment       *)
(* crosses both, and the edges of the dart (a quadrilateral with a reflex  *)
(* vertex) cross all three, so that edges are split at several levels of   *)
(* the BSP and the pieces are split again.  A polygon may be added more    *)
(* than once, which gives edges that lie on one another.                   *)
(***************************************************************************)
MaxBspVertices == 8
MaxBspSplit == 16
Steep == <<V(6, -1), V(7, 7)>>
Dart == <<V(5, 0), V(9, 3), V(5, 6), V(6, 3)>>
BspPolygons == {Segment, Triangle, Steep, Dart}

BspAddObstacle ==
  \E vertices \in BspPolygons :
    /\ Len(obstacles) + Len(vertices) <= MaxBspVertices
    /\ addObstacle(vertices)
BspProcess ==
  /\ Len(obstacles) <= MaxBspSplit
  /\ processObstacles

NextBsp ==
  \/ BspAddObstacle
  \/ BspProcess

SpecBsp == Init /\ [][NextBsp]_vars

\* The nodes of a BSP.
RECURSIVE SubNodes(_)
SubNodes(node) ==
  IF node = null THEN {}
  ELSE {node} \cup SubNodes(node[2]) \cup SubNodes(node[3])

\* C22: for every node of the BSP with splitter edge e, every edge stored in
\* the node's left subtree has both of its endpoints, as they are after all
\* splits, at leftOf(e.point, e.next.point, .) >= -epsilon, and every edge
\* stored in its right subtree has both at leftOf <= epsilon: no edge that
\* straddles the line of e is stored unsplit below e.
C22_SubtreesOnOneSide ==
  \A node \in SubNodes(obstacleTree) :
    /\ \A j1 \in TreeObstacles(node[2]) :
         IsLeft(j1LeftOfI(obstacles, node[1], j1),
                j2LeftOfI(obstacles, node[1], j1))
    /\ \A j1 \in TreeObstacles(node[3]) :
         IsRight(j1LeftOfI(obstacles, node[1], j1),
                 j2LeftOfI(obstacles, node[1], j1))

\* The vertex at place v was made by the split at the node: it cut an edge
\* of the node's list whose ends lie strictly on different sides of the
\* node's splitter, and both pieces are stored below the node.
CutAt(node, v) ==
  LET below == TreeObstacles(node[2]) \cup TreeObstacles(node[3])
      a == j1LeftOfI(obstacles, node[1], obstacles[v].previous)
      b == j2LeftOfI(obstacles, node[1], v)
  IN /\ ~IsOriginal(polygons, v)
     /\ v \in below
     /\ obstacles[v].previous \in below
     /\ ~IsLeft(a, b)
     /\ ~IsRight(a, b)

\* processObstacles() has just run, and an edge that the root had put on one
\* side was cut by a node below the root, which has edges on both sides.
C22_Witness ==
  /\ ret.op = "processObstacles"
  /\ \E node \in SubNodes(obstacleTree) \ {obstacleTree} :
       /\ node[2] # null
       /\ node[3] # null
       /\ \E v \in 1..Len(obstacles) : CutAt(node, v)

\* Exhaustive counting for the candidate at index i of list: the edges of
\* the list that lie left of it or straddle it, and those that lie right of
\* it or straddle it.
LeftCount(obs, list, i) ==
  Cardinality({j \in 0..(Len(list) - 1) :
    /\ j # i
    /\ \/ IsLeft(j1LeftOfI(obs, list[i + 1], list[j + 1]),
                 j2LeftOfI(obs, list[i + 1], list[j + 1]))
       \/ ~IsRight(j1LeftOfI(obs, list[i + 1], list[j + 1]),
                   j2LeftOfI(obs, list[i + 1], list[j + 1]))})
RightCount(obs, list, i) ==
  Cardinality({j \in 0..(Len(list) - 1) :
    /\ j # i
    /\ ~IsLeft(j1LeftOfI(obs, list[i + 1], list[j + 1]),
               j2LeftOfI(obs, list[i + 1], list[j + 1]))})
FullPair(obs, list, i) ==
  SizePair(LeftCount(obs, list, i), RightCount(obs, list, i))

\* The lowest index whose fully counted pair is minimal.
LowestOf(pairs) ==
  CHOOSE i \in DOMAIN pairs :
    /\ \A k \in DOMAIN pairs : ~lessThan(pairs[k], pairs[i])
    /\ \A k \in DOMAIN pairs : k < i => lessThan(pairs[i], pairs[k])
LowestMinimal(obs, list) ==
  LowestOf([k \in 0..(Len(list) - 1) |-> FullPair(obs, list, k)])

\* What one level of the build does with a list: the split it selects and
\* the partition it makes for it.
Selected(obs, list) ==
  SelectSplit(obs, list, 0,
              [optimalSplit |-> 0, minLeft |-> Len(list), minRight |-> Len(list)])
Partitioned(obs, list, sel) == Partition(obs, list, sel)

\* The level chooses as exhaustive counting would and fills both child
\* arrays exactly.
LevelExact(obs, list, sel, part) ==
  /\ sel.optimalSplit = LowestMinimal(obs, list)
  /\ sel.minLeft = LeftCount(obs, list, sel.optimalSplit)
  /\ sel.minRight = RightCount(obs, list, sel.optimalSplit)
  /\ part.leftCounter = sel.minLeft
  /\ part.rightCounter = sel.minRight
  /\ Len(part.left) = sel.minLeft
  /\ Len(part.right) = sel.minRight
  /\ \A n \in 1..Len(part.left) : part.left[n] # 0
  /\ \A n \in 1..Len(part.right) : part.right[n] # 0

\* Every level of the build of list is exact: this level, the levels of the
\* left child, and the levels of the right child on the list the left
\* child's splits left behind.
RECURSIVE LevelsExact(_, _)
ChildrenExact(obs, list, sel, part) ==
  /\ LevelExact(obs, list, sel, part)
  /\ LevelsExact(part.obs, part.left)
  /\ LevelsExact(buildObstacleTreeRecursive(part.obs, part.left).obs, part.right)
LevelFrom(obs, list, sel) ==
  ChildrenExact(obs, list, sel, Partitioned(obs, list, sel))
LevelsExact(obs, list) ==
  \/ Len(list) = 0
  \/ LevelFrom(obs, list, Selected(obs, list))

\* C23: at every level of the build that processObstacles() runs, the chosen
\* splitter is the lowest-index edge whose fully counted pair (max(L,R),
\* min(L,R)) is lexicographically minimal, minLeft and minRight are its
\* complete counts, and the partition fills the child arrays of these sizes
\* exactly, leaving no null entry.
C23_SplitterAsExhaustive ==
  [][ret'.op = "processObstacles" =>
       LevelsExact(obstacles, [i \in 1..Len(obstacles) |-> i])]_vars

\* The list as the addObstacle calls left it, before any split.
RECURSIVE Unsplit(_)
UnsplitNext(before, k) ==
  AddObstacleLoop(before,
                  [i \in 1..polygons[k].n |-> obstacles[polygons[k].first + i].point],
                  0, Len(before))
Unsplit(k) == IF k = 0 THEN <<>> ELSE UnsplitNext(Unsplit(k - 1), k)

\* The root level of the build of obs: the winner is not the first edge, a
\* later edge ties with it, the counting of a later edge stops early, and
\* the winner cuts an edge.
RootCase(obs, list, best) ==
  /\ best > 0
  /\ \E i \in (best + 1)..(Len(list) - 1) :
       FullPair(obs, list, i) = FullPair(obs, list, best)
  /\ \E i \in (best + 1)..(Len(list) - 1) :
       CountSides(obs, list, i, 0, 0, 0, LeftCount(obs, list, best),
                  RightCount(obs, list, best))
         # <<LeftCount(obs, list, i), RightCount(obs, list, i)>>
  /\ LeftCount(obs, list, best) + RightCount(obs, list, best) > Len(list) - 1

\* processObstacles() has just built the tree from such a list.
BuiltFrom(obs) ==
  /\ buildObstacleTree(obs).obs = obstacles
  /\ buildObstacleTree(obs).node = obstacleTree
  /\ RootCase(obs, [i \in 1..Len(obs) |-> i],
              LowestMinimal(obs, [i \in 1..Len(obs) |-> i]))
C23_Witness ==
  /\ ret.op = "processObstacles"
  /\ Len(polygons) = 3
  /\ BuiltFrom(Unsplit(Len(polygons)))

\* The number of nodes of a BSP.
RECURSIVE NodeCount(_)
NodeCount(node) ==
  IF node = null THEN 0 ELSE 1 + NodeCount(node[2]) + NodeCount(node[3])

\* At every level of the build of list both child lists are shorter than
\* the list.
RECURSIVE LevelsShrink(_, _)
ChildrenShrink(obs, list, part) ==
  /\ Len(part.left) < Len(list)
  /\ Len(part.right) < Len(list)
  /\ LevelsShrink(part.obs, part.left)
  /\ LevelsShrink(buildObstacleTreeRecursive(part.obs, part.left).obs, part.right)
LevelsShrink(obs, list) ==
  \/ Len(list) = 0
  \/ ChildrenShrink(obs, list, Partitioned(obs, list, Selected(obs, list)))

\* C30: processObstacles() returns; every recursive call of the build gets
\* fewer edges than its parent, and when it returns every vertex of the
\* simulator's list, original or split, is the splitter of exactly one node
\* of the BSP, so that the BSP has getNumObstacleVertices() nodes.
C30_OneNodePerVertex ==
  [][ret'.op = "processObstacles" =>
       /\ LevelsShrink(obstacles, [i \in 1..Len(obstacles) |-> i])
       /\ TreeObstacles(obstacleTree') = 1..Len(obstacles')
       /\ NodeCount(obstacleTree') = Len(obstacles')
       /\ NodeCount(obstacleTree') = getNumObstacleVertices']_vars

\* processObstacles() has just run on a list that already held split
\* vertices: what it left is longer than what one run on the polygons as
\* they were added leaves.
C30_Witness ==
  /\ ret.op = "processObstacles"
  /\ Len(polygons) >= 2
  /\ Len(obstacles) > Len(buildObstacleTree(Unsplit(Len(polygons))).obs)
  /\ NodeCount(obstacleTree) = Len(obstacles)

(***************************************************************************)
(* SpecNear: up to twelve agents on a grid of four columns and three rows, *)
(* two apart, some of them possibly moved off the grid by (1,1); they are  *)
(* made from defaults with neighborDist 5, maxNeighbors 3 and radius 0.5,  *)
(* so that they do not overlap and stay where they are.  The neighbour     *)
(* limit and range of the first and the sixth agent can be set, and        *)
(* doStep() is called with any number of agents.                           *)
(***************************************************************************)
MaxNearAgents == 12
MaxNearSets == 1
MaxNearSteps == 1
NearMoved == {0, 5, 11}
GridPlace(i) == V(2 * (i % 4), 2 * (i \div 4))
MovedPlace(i) == V(2 * (i % 4) + 1, 2 * (i \div 4) + 1)

NearSetDefaults ==
  /\ defaultAgent = null
  /\ setAgentDefaults(Num(5), 3, Num(2), Num(2), Dec(5, 1), One, V(0, 0))
NearAddAgent ==
  \E moved \in BOOLEAN :
    /\ defaultAgent # null
    /\ Len(agents) < MaxNearAgents
    /\ moved => Len(agents) \in NearMoved
    /\ addAgent(IF moved THEN MovedPlace(Len(agents)) ELSE GridPlace(Len(agents)))
NearSet ==
  \E agentNo \in {0, 5} :
    /\ sets < MaxNearSets
    /\ agentNo < Len(agents)
    /\ \/ setAgentMaxNeighbors(agentNo, 1)
       \/ setAgentMaxNeighbors(agentNo, 11)
       \/ setAgentNeighborDist(agentNo, Dec(25, 1))
NearStep ==
  /\ steps < MaxNearSteps
  /\ doStep

NextNear ==
  \/ NearSetDefaults
  \/ NearAddAgent
  \/ NearSet
  \/ NearStep

SpecNear == Init /\ [][NextNear]_vars

\* The squared distance between two agents of a list, and the other agents
\* that a brute-force scan finds within the neighbour range of self.
DistSqBetween(ags, self, other) ==
  absSq(subtract(ags[self].position, ags[other].position))
InRange(ags, self) ==
  {other \in 1..Len(ags) :
     /\ other # self
     /\ FLt(DistSqBetween(ags, self, other), sqr(ags[self].neighborDist))}

\* The list nbrs is what a brute-force scan of ags gives the agent self.
AsBruteForce(ags, self, nbrs) ==
  /\ Len(nbrs) = IMin(ags[self].maxNeighbors, Cardinality(InRange(ags, self)))
  /\ \A n \in 1..Len(nbrs) :
       /\ nbrs[n].value \in InRange(ags, self)
       /\ nbrs[n].key = DistSqBetween(ags, self, nbrs[n].value)
       /\ \A o \in 1..Len(nbrs) : o # n => nbrs[o].value # nbrs[n].value
  /\ \A other \in InRange(ags, self) :
       (\A n \in 1..Len(nbrs) : nbrs[n].value # other)
         => \A n \in 1..Len(nbrs) :
              ~FLt(DistSqBetween(ags, self, other), nbrs[n].key)

\* C24: the agentNeighbors that doStep() leaves an agent with maxNeighbors
\* = k > 0 are those of a brute-force scan of the agents as they were when
\* the tick began: min(k, m) entries for the m other agents in range, the
\* agent itself absent, no agent twice, each key the squared distance to its
\* agent, and no agent in range that was left out strictly closer than one
\* that was kept.
C24_NeighborsAsBruteForce ==
  [][ret'.op = "doStep" =>
       \A self \in 1..Len(agents) :
         agents[self].maxNeighbors > 0 =>
           AsBruteForce(agents, self, agents'[self].agentNeighbors)]_vars

\* A tick of twelve agents, whose tree has two leaves, has just been made;
\* the first agent kept fewer neighbours than are in range, and the leaf it
\* is not in lies within its range but no nearer than the farthest one kept.
FarLeaf(self) ==
  IF \E i \in (agentTree[2].begin + 1)..agentTree[2].end : kdAgents[i] = self
  THEN agentTree[agentTree[1].right + 1]
  ELSE agentTree[agentTree[1].left + 1]
C24_Witness ==
  /\ ret.op = "doStep"
  /\ Len(agents) = MaxNearAgents
  /\ agentTree[1].end - agentTree[1].begin > MAX_LEAF_SIZE
  /\ Len(agents[1].agentNeighbors) = agents[1].maxNeighbors
  /\ Cardinality(InRange(agents, 1)) > agents[1].maxNeighbors
  /\ FLt(DistSqBox(FarLeaf(1), agents[1].position), sqr(agents[1].neighborDist))
  /\ FGe(DistSqBox(FarLeaf(1), agents[1].position),
         agents[1].agentNeighbors[Len(agents[1].agentNeighbors)].key)
  /\ \E self \in 1..Len(agents) :
       Cardinality(InRange(agents, self)) < agents[self].maxNeighbors

(***************************************************************************)
(* SpecEdges: polygons are added and processed, then up to two agents are  *)
(* added near them and a tick is made.  The agents are made from defaults  *)
(* with timeHorizonObst 1, maxSpeed 1 and radius 1, so that their obstacle *)
(* range is 2, and maxNeighbors 1.  The short segment is a millimetre      *)
(* long; the upper end of the post lies 0.008 above its line, which the    *)
(* BSP's tolerance counts as on the line.                                  *)
(***************************************************************************)
MaxEdgeVertices == 7
MaxEdgeAgents == 2
MaxEdgeSteps == 1
Short == <<V(0, 0), Vector2(Dec(1, 3), Zero)>>
Post == <<Vector2(Dec(5, 1), Num(-1)), Vector2(Dec(5, 1), Dec(8, 3))>>
EdgePolygons == {Short, Post, Triangle, Steep}
EdgePlaces ==
  {Vector2(Dec(50001, 5), Num(2)), Vector2(Dec(50001, 5), Dec(199, 2)),
   V(5, 2), V(6, 0), V(7, 3)}

EdgeSetDefaults ==
  /\ defaultAgent = null
  /\ setAgentDefaults(Num(15), 1, One, One, One, One, V(0, 0))
EdgeAddObstacle ==
  \E vertices \in EdgePolygons :
    /\ agents = <<>>
    /\ obstacleTree = null
    /\ Len(obstacles) + Len(vertices) <= MaxEdgeVertices
    /\ \A k \in 1..Len(polygons) :
         obstacles[polygons[k].first + 1].point # vertices[1]
    /\ addObstacle(vertices)
EdgeProcess ==
  /\ agents = <<>>
  /\ obstacles # <<>>
  /\ obstacleTree = null
  /\ processObstacles
EdgeAddAgent ==
  \E position \in EdgePlaces :
    /\ defaultAgent # null
    /\ obstacleTree # null
    /\ steps = 0
    /\ Len(agents) < MaxEdgeAgents
    /\ \A i \in 1..Len(agents) : agents[i].position # position
    /\ addAgent(position)
EdgeStep ==
  /\ steps < MaxEdgeSteps
  /\ agents # <<>>
  /\ doStep

NextEdges ==
  \/ EdgeSetDefaults
  \/ EdgeAddObstacle
  \/ EdgeProcess
  \/ EdgeAddAgent
  \/ EdgeStep

SpecEdges == Init /\ [][NextEdges]_vars

\* The obstacle range of an agent, squared, and the squared distance from a
\* position to the edge that starts at the vertex e.
ObstacleRangeSq(a) == sqr(FAdd(FMul(a.timeHorizonObst, a.maxSpeed), a.radius))
DistSqEdge(obs, e, position) ==
  distSqPointLineSegment(obs[e].point, obs[obs[e].next].point, position)

\* The edges of the BSP that a brute-force scan finds for the agent a: it is
\* strictly right of the edge, and the edge is within its obstacle range.
EdgesInRange(obs, tree, a) ==
  {e \in TreeObstacles(tree) :
     /\ FLt(leftOf(obs[e].point, obs[obs[e].next].point, a.position), Zero)
     /\ FLt(DistSqEdge(obs, e, a.position), ObstacleRangeSq(a))}

\* The list nbrs holds only edges of the scan, each once, with its distance
\* as key, in non-decreasing key order.
EdgesKeptAreNear(obs, tree, a, nbrs) ==
  /\ \A n \in 1..Len(nbrs) :
       /\ nbrs[n].value \in EdgesInRange(obs, tree, a)
       /\ nbrs[n].key = DistSqEdge(obs, nbrs[n].value, a.position)
       /\ \A o \in 1..Len(nbrs) : o # n => nbrs[o].value # nbrs[n].value
       /\ n > 1 => FLe(nbrs[n - 1].key, nbrs[n].key)

\* The list nbrs holds every edge of the scan.
EdgesNearAreKept(obs, tree, a, nbrs) ==
  \A e \in EdgesInRange(obs, tree, a) : \E n \in 1..Len(nbrs) : nbrs[n].value = e

\* C25: the obstacleNeighbors that doStep() leaves an agent with are exactly
\* the edges of the BSP that the agent, as it was when the tick began, is
\* strictly right of and whose squared point-to-segment distance is below
\* (timeHorizonObst * maxSpeed + radius)^2: each once, with that distance as
\* key, in non-decreasing key order, whatever maxNeighbors is.
C25_EdgesAsBruteForce ==
  [][ret'.op = "doStep" =>
       \A self \in 1..Len(agents) :
         /\ EdgesKeptAreNear(obstacles, obstacleTree, agents[self],
                             agents'[self].obstacleNeighbors)
         /\ EdgesNearAreKept(obstacles, obstacleTree, agents[self],
                             agents'[self].obstacleNeighbors)]_vars

\* The short segment is among the polygons.
ShortAdded ==
  \E k \in 1..Len(polygons) : obstacles[polygons[k].first + 1].point = Short[1]

\* What the code gives: every edge kept is an edge of the scan, once, with
\* its key, in order; and without the short segment every edge of the scan
\* is kept.
C25_EdgesKept ==
  [][ret'.op = "doStep" =>
       \A self \in 1..Len(agents) :
         /\ EdgesKeptAreNear(obstacles, obstacleTree, agents[self],
                             agents'[self].obstacleNeighbors)
         /\ ~ShortAdded =>
              EdgesNearAreKept(obstacles, obstacleTree, agents[self],
                               agents'[self].obstacleNeighbors)]_vars

\* A tick has left an agent with more obstacle neighbours than maxNeighbors.
C25_Uncapped ==
  /\ ret.op = "doStep"
  /\ \E self \in 1..Len(agents) :
       Len(agents[self].obstacleNeighbors) > agents[self].maxNeighbors

(***************************************************************************)
(* The lines that are kept hard when linearProgram2 has failed, checked on *)
(* the ticks of SpecSolve.                                                 *)
(***************************************************************************)
\* The ORCA lines built from the obstacle neighbours of an agent in a tick:
\* the agent as it was before the tick, with the neighbours the tick found.
ObstacleLinesOf(before, after, obs) ==
  ObstacleLines([before EXCEPT !.obstacleNeighbors = after.obstacleNeighbors],
                obs, <<>>, 0)

\* linearProgram2 on the lines of an agent, as computeNewVelocity calls it.
FirstProgram(a) == linearProgram2(a.orcaLines, a.maxSpeed, a.prefVelocity, FALSE)

\* The projected problem linearProgram3 builds for line i when it is given
\* numObstLines.
ProjectedProblem(lines, numObstLines, i) ==
  ProjLines(lines, SubSeq(lines, 1, numObstLines), i, numObstLines)

\* With n obstacle lines, linearProgram3 is given n, is entered at a line
\* from n on, and for every line i from there on the projected problem holds
\* the n obstacle lines and at most one line for each of the lines n..i-1.
HardLinesAreObstacleLines(lines, n, beginLine) ==
  /\ NumObstLines(lines) = n
  /\ beginLine >= NumObstLines(lines)
  /\ \A i \in beginLine..(Len(lines) - 1) :
       /\ SubSeq(ProjectedProblem(lines, NumObstLines(lines), i), 1, n)
            = SubSeq(lines, 1, n)
       /\ Len(ProjectedProblem(lines, NumObstLines(lines), i)) <= i

\* C26: when computeNewVelocity falls back to linearProgram3, the
\* numObstLines it passes is the number of lines built from the obstacle
\* neighbours, the failure index is at least that number, every projected
\* problem keeps exactly the obstacle lines, and the lines of the agents
\* below line i are replaced by projected lines.
C26_ObstacleLinesStayHard ==
  [][ret'.op = "doStep" =>
       \A i \in 1..Len(agents) :
         ~Feasible(agents'[i]) =>
           HardLinesAreObstacleLines(
             agents'[i].orcaLines,
             Len(ObstacleLinesOf(agents[i], agents'[i], obstacles)),
             FirstProgram(agents'[i]).lineFail)]_vars

\* What the code gives: linearProgram3 is given the number of all lines, so
\* that it is entered below that number and every projected problem is the
\* whole list of lines, none of them projected.
C26_AllLinesStayHard ==
  [][ret'.op = "doStep" =>
       \A i \in 1..Len(agents) :
         ~Feasible(agents'[i]) =>
           /\ NumObstLines(agents'[i].orcaLines) = Len(agents'[i].orcaLines)
           /\ FirstProgram(agents'[i]).lineFail
                < NumObstLines(agents'[i].orcaLines)
           /\ \A l \in 0..(Len(agents'[i].orcaLines) - 1) :
                ProjectedProblem(agents'[i].orcaLines,
                                 NumObstLines(agents'[i].orcaLines), l)
                  = agents'[i].orcaLines]_vars

\* A tick in which linearProgram2 failed for an agent without obstacle
\* neighbours.
C26_FellBack ==
  /\ ret.op = "doStep"
  /\ \E i \in 1..Len(agents) :
       /\ ~Feasible(agents[i])
       /\ agents[i].obstacleNeighbors = <<>>

(***************************************************************************)
(* SpecFallback: up to four agents of radius 1 and maxSpeed 1 on the x     *)
(* axis, with a time step of 0.25, then a tick.  The third agent can be    *)
(* put on the first, and the second and fourth overlap the first from both *)
(* sides, so that linearProgram2 fails for it and linearProgram3 runs.     *)
(***************************************************************************)
MaxFallbackAgents == 4
MaxFallbackSteps == 1
FallbackVelocities == {V(0, 0), V(2, 0), V(-2, 0)}
FallbackPlaces(k) ==
  CASE k = 0 -> {V(0, 0)}
    [] k = 1 -> {Vector2(Dec(16, 1), Zero), V(3, 0)}
    [] k = 2 -> {V(0, 0), V(-3, 0)}
    [] OTHER -> {Vector2(Dec(-19, 1), Zero)}

FallbackTimeStep ==
  /\ agents = <<>>
  /\ timeStep # Dec(25, 2)
  /\ setTimeStep(Dec(25, 2))
FallbackAddAgent ==
  \E position \in FallbackPlaces(Len(agents)), velocity \in FallbackVelocities :
    /\ steps = 0
    /\ Len(agents) < MaxFallbackAgents
    /\ addAgentWithParams(position, Num(15), 3, Num(2), Num(2), One, One,
                          velocity)
FallbackStep ==
  /\ steps < MaxFallbackSteps
  /\ agents # <<>>
  /\ doStep

NextFallback ==
  \/ FallbackTimeStep
  \/ FallbackAddAgent
  \/ FallbackStep

SpecFallback == Init /\ [][NextFallback]_vars

\* The direction linearProgram3 optimises for line i: its normal to the left.
Outward(lines, i) ==
  Vector2(FNeg(lines[i + 1].direction.y), lines[i + 1].direction.x)

\* The inner linearProgram2 of linearProgram3 for line i.
InnerProgram(lines, numObstLines, radius, i) ==
  linearProgram2(ProjectedProblem(lines, numObstLines, i), radius,
                 Outward(lines, i), TRUE)

\* linearProgram3 as the claim states it: where the inner linearProgram2
\* succeeds its velocity is taken, where it returns short the velocity from
\* before it is kept, and the distance is computed from what was taken.
RECURSIVE LP3Stated(_, _, _, _, _, _)
LP3StatedNext(lines, numObstLines, radius, taken, i) ==
  LP3Stated(lines, numObstLines, radius, taken,
            det(lines[i + 1].direction, subtract(lines[i + 1].point, taken)),
            i + 1)
LP3StatedProject(lines, numObstLines, radius, newVelocity, i, inner) ==
  LP3StatedNext(lines, numObstLines, radius,
                IF inner.lineFail < Len(ProjectedProblem(lines, numObstLines, i))
                THEN newVelocity ELSE inner.newVelocity,
                i)
LP3Stated(lines, numObstLines, radius, newVelocity, distance, i) ==
  IF i >= Len(lines) THEN newVelocity
  ELSE IF FGt(det(lines[i + 1].direction,
                  subtract(lines[i + 1].point, newVelocity)), distance)
  THEN LP3StatedProject(lines, numObstLines, radius, newVelocity, i,
                        InnerProgram(lines, numObstLines, radius, i))
  ELSE LP3Stated(lines, numObstLines, radius, newVelocity, distance, i + 1)

\* C27: in linearProgram3, for each line that is violated by more than the
\* running distance, newVelocity becomes the velocity of the inner
\* linearProgram2 where that succeeds, and stays what it was before the
\* inner call where that returns short; the distance is computed from it.
C27_InnerResultTaken ==
  [][ret'.op = "doStep" =>
       \A i \in 1..Len(agents) :
         ~Feasible(agents'[i]) =>
           agents'[i].newVelocity =
             LP3Stated(agents'[i].orcaLines,
                       NumObstLines(agents'[i].orcaLines),
                       agents'[i].maxSpeed,
                       FirstProgram(agents'[i]).newVelocity, Zero,
                       FirstProgram(agents'[i]).lineFail)]_vars

\* What the code gives: linearProgram3 leaves newVelocity as the failed
\* linearProgram2 left it, the inner linearProgram2 having succeeded or not.
C27_FallbackChangesNothing ==
  [][ret'.op = "doStep" =>
       \A i \in 1..Len(agents) :
         agents'[i].newVelocity = FirstProgram(agents'[i]).newVelocity]_vars

\* A tick in which linearProgram2 failed for an agent and the inner
\* linearProgram2 of linearProgram3 succeeded for the line it failed on.
C27_InnerSucceeded ==
  /\ ret.op = "doStep"
  /\ \E i \in 1..Len(agents) :
       /\ ~Feasible(agents[i])
       /\ InnerProgram(agents[i].orcaLines, NumObstLines(agents[i].orcaLines),
                       agents[i].maxSpeed,
                       FirstProgram(agents[i]).lineFail).lineFail
            = Len(agents[i].orcaLines)

\* A tick in which linearProgram2 failed for an agent and the inner
\* linearProgram2 returned short.
C27_InnerShort ==
  /\ ret.op = "doStep"
  /\ \E i \in 1..Len(agents) :
       /\ ~Feasible(agents[i])
       /\ InnerProgram(agents[i].orcaLines, NumObstLines(agents[i].orcaLines),
                       agents[i].maxSpeed,
                       FirstProgram(agents[i]).lineFail).lineFail
            < Len(agents[i].orcaLines)

(***************************************************************************)
(* SpecAcross: a wall of two vertices and the square are added and         *)
(* processed, then a caller asks whether two points on the two sides see   *)
(* each other, with radius 0 or 1.  The line y = 0 runs through the upper  *)
(* end of the wall, the line y = 1 passes it at distance 1, the line       *)
(* y = -1 crosses the wall.                                                *)
(***************************************************************************)
MaxAcrossVertices == 6
Wall == <<V(0, -2), V(0, 0)>>
AcrossPoints == {V(-3, 0), V(3, 0), V(-3, 1), V(3, 1), V(-3, -1), V(3, -1)}
AcrossRadii == {Zero, One}

AcrossAddObstacle ==
  \E vertices \in {Wall, Square} :
    /\ obstacleTree = null
    /\ Len(obstacles) + Len(vertices) <= MaxAcrossVertices
    /\ addObstacle(vertices)
AcrossProcess ==
  /\ obstacles # <<>>
  /\ obstacleTree = null
  /\ processObstacles
AcrossQuery ==
  \E point1 \in AcrossPoints, point2 \in AcrossPoints, radius \in AcrossRadii :
    /\ point1 # point2
    /\ queryVisibility(point1, point2, radius)

NextAcross ==
  \/ AcrossAddObstacle
  \/ AcrossProcess
  \/ AcrossQuery

SpecAcross == Init /\ [][NextAcross]_vars

\* q1 is strictly right and q2 strictly left of the edge of the node.
IsAcross(obs, node, q1, q2) ==
  /\ FLt(leftOf(obs[node[1]].point, obs[obs[node[1]].next].point, q1), Zero)
  /\ FGt(leftOf(obs[node[1]].point, obs[obs[node[1]].next].point, q2), Zero)

\* Both ends of the edge of the node are on one side of the line q1 q2 and
\* at least radius away from it.
EndsClearAtLeast(obs, node, q1, q2, radius) ==
  LET point1LeftOfQ == leftOf(q1, q2, obs[node[1]].point)
      point2LeftOfQ == leftOf(q1, q2, obs[obs[node[1]].next].point)
      invLengthQ == FDiv(One, absSq(subtract(q2, q1)))
  IN /\ FGe(FMul(point1LeftOfQ, point2LeftOfQ), Zero)
     /\ FGe(FMul(sqr(point1LeftOfQ), invLengthQ), sqr(radius))
     /\ FGe(FMul(sqr(point2LeftOfQ), invLengthQ), sqr(radius))

\* The same with both ends farther than radius away.
EndsClearBeyond(obs, node, q1, q2, radius) ==
  LET point1LeftOfQ == leftOf(q1, q2, obs[node[1]].point)
      point2LeftOfQ == leftOf(q1, q2, obs[obs[node[1]].next].point)
      invLengthQ == FDiv(One, absSq(subtract(q2, q1)))
  IN /\ FGe(FMul(point1LeftOfQ, point2LeftOfQ), Zero)
     /\ FGt(FMul(sqr(point1LeftOfQ), invLengthQ), sqr(radius))
     /\ FGt(FMul(sqr(point2LeftOfQ), invLengthQ), sqr(radius))

\* The query is visible in both subtrees of the node.
VisibleBelow(obs, node, q1, q2, radius) ==
  /\ queryVisibilityRecursive(obs, q1, q2, radius, node[2])
  /\ queryVisibilityRecursive(obs, q1, q2, radius, node[3])

\* C28: in queryVisibility, at a node with q1 strictly right and q2 strictly
\* left of its edge e, the result is true exactly when both ends of e are on
\* the same side of the line q1 q2, both at distance >= radius from it, and
\* the query is visible in both subtrees; with radius 0 an end of e on the
\* line does not make the result false.
C28_AcrossAtLeastRadius ==
  ret.op = "queryVisibility" =>
    \A node \in SubNodes(obstacleTree) :
      IsAcross(obstacles, node, ret.arg[1], ret.arg[2]) =>
        (queryVisibilityRecursive(obstacles, ret.arg[1], ret.arg[2],
                                  ret.arg[3], node)
           <=> /\ EndsClearAtLeast(obstacles, node, ret.arg[1], ret.arg[2],
                                   ret.arg[3])
               /\ VisibleBelow(obstacles, node, ret.arg[1], ret.arg[2],
                               ret.arg[3]))

\* What the code gives: both ends of e must be farther than radius from the
\* line q1 q2, so that with radius 0 an end of e on the line makes the
\* result false.
C28_AcrossBeyondRadius ==
  ret.op = "queryVisibility" =>
    \A node \in SubNodes(obstacleTree) :
      IsAcross(obstacles, node, ret.arg[1], ret.arg[2]) =>
        (queryVisibilityRecursive(obstacles, ret.arg[1], ret.arg[2],
                                  ret.arg[3], node)
           <=> /\ EndsClearBeyond(obstacles, node, ret.arg[1], ret.arg[2],
                                  ret.arg[3])
               /\ VisibleBelow(obstacles, node, ret.arg[1], ret.arg[2],
                               ret.arg[3]))

\* A query with radius 0 across the root, an end of whose edge is on the
\* line of the query; both subtrees are visible and the answer is false.
C28_EndOnLine ==
  /\ ret.op = "queryVisibility"
  /\ ret.arg[3] = Zero
  /\ obstacleTree # null
  /\ IsAcross(obstacles, obstacleTree, ret.arg[1], ret.arg[2])
  /\ EndsClearAtLeast(obstacles, obstacleTree, ret.arg[1], ret.arg[2], Zero)
  /\ VisibleBelow(obstacles, obstacleTree, ret.arg[1], ret.arg[2], Zero)
  /\ ~ret.val

\* A query across the root that is answered true.
C28_SeenAcross ==
  /\ ret.op = "queryVisibility"
  /\ obstacleTree # null
  /\ IsAcross(obstacles, obstacleTree, ret.arg[1], ret.arg[2])
  /\ ret.val

(***************************************************************************)
(* SpecKd: up to twelve agents on the grid of SpecNear, some of them       *)
(* possibly moved off it, the first one possibly with a preferred          *)
(* velocity, and two ticks, the first of them before the last agent is     *)
(* added, so that agents are added between the ticks.                      *)
(***************************************************************************)
MaxKdAgents == 12
MaxKdSteps == 2
MaxKdSets == 1

KdSetDefaults ==
  /\ defaultAgent = null
  /\ setAgentDefaults(Num(5), 3, Num(2), Num(2), Dec(5, 1), One, V(0, 0))
KdAddAgent ==
  \E moved \in BOOLEAN :
    /\ defaultAgent # null
    /\ Len(agents) < MaxKdAgents
    /\ steps < MaxKdSteps
    /\ moved => Len(agents) \in NearMoved
    /\ addAgent(IF moved THEN MovedPlace(Len(agents)) ELSE GridPlace(Len(agents)))
KdPrefVelocity ==
  /\ sets < MaxKdSets
  /\ steps = 0
  /\ Len(agents) = 1
  /\ setAgentPrefVelocity(0, V(1, 0))
KdStep ==
  /\ steps < MaxKdSteps
  /\ steps = 0 => Len(agents) < MaxKdAgents
  /\ doStep

NextKd ==
  \/ KdSetDefaults
  \/ KdAddAgent
  \/ KdPrefVelocity
  \/ KdStep

SpecKd == Init /\ [][NextKd]_vars

\* The nodes of the agent tree that the queries reach from node: the node,
\* and below a node of more agents than a leaf holds its two children.
RECURSIVE KdNodes(_, _)
KdNodes(tree, node) ==
  IF node >= Len(tree) THEN {node}
  ELSE IF /\ tree[node + 1].end - tree[node + 1].begin > MAX_LEAF_SIZE
          /\ tree[node + 1].left > node
          /\ tree[node + 1].right > node
  THEN {node} \cup KdNodes(tree, tree[node + 1].left)
              \cup KdNodes(tree, tree[node + 1].right)
  ELSE {node}

\* The array is a permutation of the n agents.
IsPermutation(kdA, n) ==
  /\ Len(kdA) = n
  /\ \A a \in 1..n : Cardinality({i \in 1..n : kdA[i] = a}) = 1

\* A node of more agents than a leaf holds has two children that cover
\* [begin, left) and [left, end), neither of them empty.
Covered(tree, n) ==
  n.end - n.begin > MAX_LEAF_SIZE =>
    /\ n.left < Len(tree)
    /\ n.right < Len(tree)
    /\ tree[n.left + 1].begin = n.begin
    /\ tree[n.left + 1].end = tree[n.right + 1].begin
    /\ tree[n.right + 1].end = n.end
    /\ tree[n.left + 1].begin < tree[n.left + 1].end
    /\ tree[n.right + 1].begin < tree[n.right + 1].end

\* The box of the node holds the position of each agent of its range.
Boxed(kdA, ags, n) ==
  \A i \in (n.begin + 1)..n.end :
    /\ FLe(n.minX, ags[kdA[i]].position.x)
    /\ FLe(ags[kdA[i]].position.x, n.maxX)
    /\ FLe(n.minY, ags[kdA[i]].position.y)
    /\ FLe(ags[kdA[i]].position.y, n.maxY)

AgentTreeSound(tree, kdA, ags) ==
  /\ IsPermutation(kdA, Len(ags))
  /\ \A node \in KdNodes(tree, 0) :
       /\ node < 2 * Len(ags)
       /\ node < Len(tree)
       /\ Covered(tree, tree[node + 1])
       /\ Boxed(kdA, ags, tree[node + 1])
  /\ tree[1].begin = 0
  /\ tree[1].end = Len(ags)

\* C29: the tree that a doStep() of one or more agents builds: its array is
\* a permutation of the agents, also when agents were added since the tick
\* before; every node of more than 10 agents has two children that cover
\* [begin, left) and [left, end), neither empty; every node used has an
\* index below 2N; and the box of every node holds the position, as it is
\* when the tree is built, of every agent of its range.
C29_AgentTreeSound ==
  [][(ret'.op = "doStep" /\ Len(agents) >= 1) =>
       AgentTreeSound(agentTree', kdAgents', agents)]_vars

\* The second tick was made with twelve agents, the last of which was added
\* after the first tick; the first agent has moved; the root has two
\* children, and the sweep has permuted the array.
C29_Witness ==
  /\ ret.op = "doStep"
  /\ steps = 2
  /\ Len(agents) = MaxKdAgents
  /\ agents[1].position # GridPlace(0)
  /\ agents[1].position # MovedPlace(0)
  /\ Cardinality(KdNodes(agentTree, 0)) >= 3
  /\ \E i \in 1..Len(kdAgents) : kdAgents[i] # i

=============================================================================
